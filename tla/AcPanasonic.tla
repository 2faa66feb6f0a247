----------------------------- MODULE AcPanasonic ------------------------------
(***************************************************************************)
(* Panasonic's remotes: one object of one of the classes, `Panasonic',     *)
(* `Panasonic32'. What belongs to a class has its name in front, as in     *)
(* Panasonic_Next; after it come the names of the source.                  *)
(***************************************************************************)
EXTENDS StdAc

VARIABLES
    remote,    \* the class
    ac         \* its object

-----------------------------------------------------------------------------
(***************************************************************************)
(* ir_Panasonic.h, ir_Panasonic.cpp, class IRPanasonicAc: six remotes, and *)
(* no field that tells which: the model is guessed from bits that hold     *)
(* other settings too.                                                     *)
(***************************************************************************)
Panasonic_Models == {"LKE", "NKE", "DKE", "JKE", "CKP", "RKR"}
Panasonic_Modes == {"Auto", "Dry", "Cool", "Heat", "Fan"}
Panasonic_MinTemp == 16
Panasonic_MaxTemp == 30
Panasonic_FanModeTemp == 27
Panasonic_FanAuto == 7
Panasonic_FanDelta == 3
Panasonic_SwingVAuto == 15
Panasonic_SwingHMiddle == 6
Panasonic_SwingHAuto == 13
Panasonic_SwingHs == {Panasonic_SwingHMiddle, 9, 10, 11, 12, Panasonic_SwingHAuto}
Panasonic_TimeMax == 23 * 60 + 59
Panasonic_TimeSpecial == 1536

(* Byte 13: Power, OnTimerOn, OffTimerOn, Bit3 and Mode; 17: SwingH; 21:   *)
(* Bit0, Bit4, Bit5; 23: Kind; the clock's high bits share byte 25.        *)
Panasonic_Object == [Power : BOOLEAN, OnTimerOn : BOOLEAN, OffTimerOn : BOOLEAN,
                     Bit3 : BOOLEAN, Mode : Panasonic_Modes, Temp : 0..31, _temp : 16..30,
                     SwingV : 0..15, Fan : 0..15, SwingH : 0..15, _swingh : Panasonic_SwingHs,
                     Bit0 : BOOLEAN, Bit4 : BOOLEAN, Bit5 : BOOLEAN, Ion : BOOLEAN,
                     Kind : {1, 129, 137}, ClockLow : 0..255, ClockHigh : 0..7,
                     OnTimer : 0..2047, OffTimer : 0..2047]

Panasonic_stateReset ==
    [Power |-> FALSE, OnTimerOn |-> FALSE, OffTimerOn |-> FALSE,
     Bit3 |-> FALSE, Mode |-> "Auto", Temp |-> 0, _temp |-> 25, SwingV |-> 0,
     Fan |-> 0, SwingH |-> 0, _swingh |-> Panasonic_SwingHMiddle, Bit0 |-> FALSE,
     Bit4 |-> FALSE, Bit5 |-> FALSE, Ion |-> FALSE, Kind |-> 129,
     ClockLow |-> 0, ClockHigh |-> 0, OnTimer |-> Panasonic_TimeSpecial,
     OffTimer |-> Panasonic_TimeSpecial]

Panasonic_getModel(a) ==
    CASE a.Kind = 137 -> "RKR"
      [] a.Kind # 137 /\ a.SwingH = 0 /\ a.Bit4 -> "CKP"
      [] a.Kind = 129 /\ a.SwingH = 0 /\ ~a.Bit4 -> "JKE"
      [] a.Kind # 137 /\ a.SwingH = 6 /\ a.OnTimerOn
           /\ ~(a.Power \/ a.OffTimerOn \/ a.Bit3) -> "LKE"
      [] OTHER -> IF a.Kind = 1 THEN "DKE"
                  ELSE IF a.SwingH = 6 THEN "NKE" ELSE "Unknown"

Panasonic_setPower(a, on) == [a EXCEPT !.Power = on]

Panasonic_setTemp(a, celsius, remember) ==
    LET t == Clamp(celsius, Panasonic_MinTemp, Panasonic_MaxTemp) IN
    [a EXCEPT !.Temp = t, !._temp = IF remember THEN t ELSE @]

(* An unknown mode is Auto, at the temperature there is. *)
Panasonic_setMode(a, mode) ==
    CASE mode = "Fan" -> [Panasonic_setTemp(a, Panasonic_FanModeTemp,
                                            FALSE) EXCEPT !.Mode = mode]
      [] mode \in Panasonic_Modes \ {"Fan"} ->
           [Panasonic_setTemp(a, a._temp, TRUE) EXCEPT !.Mode = mode]
      [] OTHER -> [a EXCEPT !.Mode = "Auto"]

Panasonic_setSwingVertical(a, elevation) ==
    [a EXCEPT !.SwingV = IF elevation = Panasonic_SwingVAuto THEN elevation
                                                             ELSE Clamp(elevation, 1, 5)]

Panasonic_setSwingHorizontal(a, direction) ==
    IF direction \notin Panasonic_SwingHs THEN a
    ELSE [a EXCEPT !._swingh = direction,
                   !.SwingH = CASE Panasonic_getModel(a) \in {"DKE", "RKR"} -> direction
                                [] Panasonic_getModel(a) \in {"NKE", "LKE"} -> Panasonic_SwingHMiddle
                                [] OTHER -> @]

Panasonic_setFan(a, speed) ==
    [a EXCEPT !.Fan = Panasonic_FanDelta + IF speed \in 0..4 THEN speed ELSE Panasonic_FanAuto]
Panasonic_getFan(a) == (a.Fan - Panasonic_FanDelta) % 256

(* Two models have the bits of quiet and powerful the other way round. *)
Panasonic_Swapped(a) == Panasonic_getModel(a) \in {"RKR", "CKP"}

Panasonic_getQuiet(a) == IF Panasonic_Swapped(a) THEN a.Bit5 ELSE a.Bit0
Panasonic_getPowerful(a) == IF Panasonic_Swapped(a) THEN a.Bit0 ELSE a.Bit5

(* Each switches the other off before it is on itself. *)
Panasonic_setQuiet(a, on) ==
    IF Panasonic_Swapped(a) THEN [a EXCEPT !.Bit5 = on, !.Bit0 = @ /\ ~on]
                            ELSE [a EXCEPT !.Bit0 = on, !.Bit5 = @ /\ ~on]
Panasonic_setPowerful(a, on) ==
    IF Panasonic_Swapped(a) THEN [a EXCEPT !.Bit0 = on, !.Bit5 = @ /\ ~on]
                            ELSE [a EXCEPT !.Bit5 = on, !.Bit0 = @ /\ ~on]

Panasonic_getIon(a) == Panasonic_getModel(a) = "DKE" /\ a.Ion
Panasonic_setIon(a, on) == [a EXCEPT !.Ion = IF Panasonic_getModel(a) = "DKE" THEN on ELSE @]

(* The nibble that tells a model holds the power and both timers, and the  *)
(* byte that tells another the hours of the clock.                         *)
Panasonic_setModel(a, model) ==
    LET plain == [a EXCEPT !.Power = FALSE, !.OnTimerOn = (model = "LKE"),
                           !.OffTimerOn = FALSE, !.Bit3 = (model = "RKR"),
                           !.SwingH = IF model \in {"LKE", "NKE"} THEN 6 ELSE 0,
                           !.Bit4 = (model = "CKP"),
                           !.Kind = CASE model \in {"DKE", "CKP"} -> 1
                                      [] model = "RKR" -> 137
                                      [] OTHER -> 129,
                           !.ClockHigh = IF model = "DKE" THEN 6 ELSE 0]
        swung == IF model = "DKE" THEN Panasonic_setSwingHorizontal(plain, a._swingh)
                                  ELSE plain
    IN IF model \in Panasonic_Models THEN Panasonic_setIon(swung, Panasonic_getIon(swung)) ELSE a

(* Eleven bits, 0x600 for no time at all. *)
Panasonic__setTime(mins, round_down) ==
    LET m == AtMost(mins, Panasonic_TimeMax) IN
    CASE mins = Panasonic_TimeSpecial -> Panasonic_TimeSpecial
      [] mins # Panasonic_TimeSpecial /\ round_down -> m - (m % 10)
      [] OTHER -> m
Panasonic__getTime(time) == IF time = Panasonic_TimeSpecial THEN 0 ELSE time

Panasonic_setClock(a, mins) ==
    [a EXCEPT !.ClockLow = Panasonic__setTime(mins, FALSE) % 256,
              !.ClockHigh = Panasonic__setTime(mins, FALSE) \div 256]
Panasonic_getClock(a) == Panasonic__getTime(256 * a.ClockHigh + a.ClockLow)

Panasonic_setOnTimer(a, mins, enable) ==
    [a EXCEPT !.OnTimerOn = enable, !.OnTimer = Panasonic__setTime(mins, TRUE)]
Panasonic_setOffTimer(a, mins, enable) ==
    [a EXCEPT !.OffTimerOn = enable, !.OffTimer = Panasonic__setTime(mins, TRUE)]
Panasonic_getOnTimer(a) == Panasonic__getTime(a.OnTimer)
Panasonic_getOffTimer(a) == Panasonic__getTime(a.OffTimer)

Panasonic_convertMode(mode) == IF mode = "Off" THEN "Auto" ELSE mode

Panasonic_convertFan(speed) ==
    IF speed \in {"Min", "Low", "Medium", "High", "Max"}
      THEN FanNumber(speed) - 1 ELSE Panasonic_FanAuto
Panasonic_toCommonFanSpeed(spd) == IF spd <= 4 THEN FanOfNumber(spd + 1) ELSE "Auto"

Panasonic_Elevations == <<"Highest", "High", "Middle", "Low", "Lowest">>
Panasonic_convertSwingV(position) ==
    IF \E n \in 1..5 : Panasonic_Elevations[n] = position
      THEN CHOOSE n \in 1..5 : Panasonic_Elevations[n] = position ELSE Panasonic_SwingVAuto
Panasonic_toCommonSwingV(pos) == IF pos \in 1..5 THEN Panasonic_Elevations[pos] ELSE "Auto"

Panasonic_convertSwingH(position) ==
    CASE position = "LeftMax" -> 9 [] position = "Left" -> 10
      [] position = "Middle" -> Panasonic_SwingHMiddle [] position = "Right" -> 11
      [] position = "RightMax" -> 12 [] OTHER -> Panasonic_SwingHAuto
Panasonic_toCommonSwingH(pos) ==
    CASE pos = 9 -> "LeftMax" [] pos = 10 -> "Left"
      [] pos = Panasonic_SwingHMiddle -> "Middle" [] pos = 11 -> "Right"
      [] pos = 12 -> "RightMax" [] OTHER -> "Auto"

Panasonic_toCommon(a) ==
    [model |-> Panasonic_getModel(a), power |-> a.Power, mode |-> a.Mode,
     degrees |-> a.Temp, fan |-> Panasonic_toCommonFanSpeed(Panasonic_getFan(a)),
     swingv |-> Panasonic_toCommonSwingV(a.SwingV), swingh |-> Panasonic_toCommonSwingH(a.SwingH),
     quiet |-> Panasonic_getQuiet(a), turbo |-> Panasonic_getPowerful(a), filter |-> Panasonic_getIon(a),
     clock |-> -1]

Panasonic_panasonic(w) ==
    LET cooled == Panasonic_setTemp(Panasonic_setMode(Panasonic_setPower(Panasonic_setModel(Panasonic_stateReset, w.model),
                                                                         w.power), Panasonic_convertMode(w.mode)),
                                    w.degrees, TRUE)
        swung == Panasonic_setSwingHorizontal(
                   Panasonic_setSwingVertical(Panasonic_setFan(cooled, Panasonic_convertFan(w.fan)),
                                              Panasonic_convertSwingV(w.swingv)),
                   Panasonic_convertSwingH(w.swingh))
        rest == Panasonic_setIon(Panasonic_setPowerful(Panasonic_setQuiet(swung, w.quiet),
                                                       w.turbo), w.filter)
    IN IF w.clock >= 0 THEN Panasonic_setClock(rest, w.clock) ELSE rest

Panasonic_Wishes == [model : Panasonic_Models, power : BOOLEAN, mode : {"Off", "Fan"},
                     degrees : {31}, fan : {"Min"}, swingv : {"Lowest"},
                     swingh : {"Left"}, quiet : {TRUE}, turbo : BOOLEAN,
                     filter : {TRUE}, clock : {-1, 1440}]

Panasonic_Init == ac \in {Panasonic_stateReset} \cup {Panasonic_panasonic(w) : w \in Panasonic_Wishes}

Panasonic_Next ==
    \/ \E m \in {"DKE", "CKP", "?"} : ac' = Panasonic_setModel(ac, m)
    \/ ac' = Panasonic_setPower(ac, TRUE)
    \/ \E m \in {"Fan", "Cool"} : ac' = Panasonic_setMode(ac, m)
    \/ ac' = Panasonic_setTemp(ac, 15, TRUE) \/ ac' = Panasonic_setFan(ac, 9)
    \/ ac' = Panasonic_setSwingVertical(ac, 0)
    \/ \E d \in {0, 11} : ac' = Panasonic_setSwingHorizontal(ac, d)
    \/ ac' = Panasonic_setQuiet(ac, TRUE) \/ ac' = Panasonic_setPowerful(ac, TRUE)
    \/ ac' = Panasonic_setIon(ac, FALSE) \/ ac' = Panasonic_setClock(ac, 600)
    \/ \E on \in BOOLEAN : ac' = Panasonic_setOnTimer(ac, 1439, on)
    \/ ac' = Panasonic_setOffTimer(ac, Panasonic_TimeSpecial, TRUE)

Panasonic_TypeOK == ac \in Panasonic_Object

(* Quiet and powerful exclude each other, and change places when the model *)
(* becomes one of those that have their bits the other way round.  A model *)
(* that is set is the one that is read - but for an LKE, which is read as  *)
(* an NKE as soon as it is switched on or its timer is off.  It is set     *)
(* with the power and the timers off.  Fan forgets no temperature.         *)
Panasonic_Rules ==
    /\ ~(ac.Bit0 /\ ac.Bit5)
    /\ \A m \in Panasonic_Models :
         LET b == Panasonic_setModel(ac, m) IN
         /\ Panasonic_getModel(b) = m
         /\ ~b.Power /\ (b.OnTimerOn <=> m = "LKE")
         /\ IF Panasonic_Swapped(b) = Panasonic_Swapped(ac)
              THEN Panasonic_getQuiet(b) = Panasonic_getQuiet(ac)
              ELSE Panasonic_getQuiet(b) = Panasonic_getPowerful(ac)
         /\ Panasonic_getModel(Panasonic_setPower(b, TRUE)) = IF m = "LKE" THEN "NKE" ELSE m
         /\ Panasonic_getModel(Panasonic_setOnTimer(b, 0, FALSE)) = IF m = "LKE" THEN "NKE" ELSE m
    /\ Panasonic_getOnTimer(ac) % 10 = 0 /\ Panasonic_getOffTimer(ac) % 10 = 0
    /\ LET blown == Panasonic_setMode(ac, "Fan") IN
       Panasonic_setMode(blown, "Cool").Temp = Panasonic_setMode(ac, "Cool").Temp

(* A state that was read is sent as it was read, but for the temperature   *)
(* of an object that no mode was set for, which is 0.                      *)
Panasonic_Rereads ==
    LET read == Panasonic_toCommon(ac) IN
    SameState(read, Panasonic_toCommon(Panasonic_panasonic(read)),
              IF read.degrees < Panasonic_MinTemp THEN {"degrees"} ELSE {})

-----------------------------------------------------------------------------
(***************************************************************************)
(* ir_Panasonic.h, ir_Panasonic.cpp, class IRPanasonicAc32: power is a     *)
(* toggle, whose bit is 0 when the message has one.                        *)
(***************************************************************************)
Panasonic32_Modes == {"Fan", "Cool", "Dry", "Heat", "Auto"}
Panasonic32_MinTemp == 16
Panasonic32_MaxTemp == 30
Panasonic32_FanAuto == 15
Panasonic32_SwingVAuto == 7

Panasonic32_Object == [PowerToggle : BOOLEAN, Mode : Panasonic32_Modes, Temp : 0..15,
                       Fan : 2..6 \cup {Panasonic32_FanAuto}, SwingV : 0..7, SwingH : BOOLEAN]

(* 0x0AF136FC. *)
Panasonic32_stateReset == [PowerToggle |-> TRUE, Mode |-> "Cool", Temp |-> 1,
                           Fan |-> Panasonic32_FanAuto, SwingV |-> Panasonic32_SwingVAuto, SwingH |-> TRUE]

Panasonic32_setPowerToggle(a, on) == [a EXCEPT !.PowerToggle = ~on]
Panasonic32_getPowerToggle(a) == ~a.PowerToggle

Panasonic32_setTemp(a, degrees) ==
    [a EXCEPT !.Temp = Clamp(degrees, Panasonic32_MinTemp,
                             Panasonic32_MaxTemp) - (Panasonic32_MinTemp - 1)]
Panasonic32_getTemp(a) == a.Temp + (Panasonic32_MinTemp - 1)

Panasonic32_setMode(a, mode) == [a EXCEPT !.Mode = IF mode \in Panasonic32_Modes THEN mode ELSE "Auto"]
Panasonic32_setFan(a, speed) ==
    [a EXCEPT !.Fan = IF speed \in 2..6 THEN speed ELSE Panasonic32_FanAuto]
Panasonic32_setSwingHorizontal(a, on) == [a EXCEPT !.SwingH = on]
Panasonic32_setSwingVertical(a, elevation) ==
    [a EXCEPT !.SwingV = IF elevation = Panasonic32_SwingVAuto THEN elevation
                                                               ELSE Clamp(elevation, 1, 5)]

Panasonic32_convertMode(mode) == IF mode = "Off" THEN "Auto" ELSE mode

Panasonic32_convertFan(speed) ==
    IF speed \in {"Min", "Low", "Medium", "High", "Max"}
      THEN FanNumber(speed) + 1 ELSE Panasonic32_FanAuto
Panasonic32_toCommonFanSpeed(spd) == IF spd \in 2..6 THEN FanOfNumber(spd - 1) ELSE "Auto"

Panasonic32_Elevations == <<"Highest", "High", "Middle", "Low", "Lowest">>
Panasonic32_convertSwingV(position) ==
    IF \E n \in 1..5 : Panasonic32_Elevations[n] = position
      THEN CHOOSE n \in 1..5 : Panasonic32_Elevations[n] = position ELSE Panasonic32_SwingVAuto
Panasonic32_toCommonSwingV(pos) == IF pos \in 1..5 THEN Panasonic32_Elevations[pos] ELSE "Auto"

(* The power of the state before, if it is known, else off, toggled. *)
Panasonic32_toCommon(a, before) ==
    [power |-> before # Panasonic32_getPowerToggle(a), mode |-> a.Mode,
     degrees |-> Panasonic32_getTemp(a), fan |-> Panasonic32_toCommonFanSpeed(a.Fan),
     swingv |-> Panasonic32_toCommonSwingV(a.SwingV), swingh |-> OnOff(a.SwingH)]

(* What sendAc gives for the power is whether it changes. *)
Panasonic32_panasonic32(w) ==
    LET cooled == Panasonic32_setFan(Panasonic32_setTemp(Panasonic32_setMode(Panasonic32_setPowerToggle(Panasonic32_stateReset, w.power),
                                                                             Panasonic32_convertMode(w.mode)), w.degrees),
                                     Panasonic32_convertFan(w.fan))
    IN Panasonic32_setSwingHorizontal(Panasonic32_setSwingVertical(cooled, Panasonic32_convertSwingV(w.swingv)),
                                      w.swingh # "Off")

Panasonic32_Wishes == [power : BOOLEAN, mode : opmode_t, degrees : Around(16, 30),
                       fan : {"Auto", "Min", "Max", "MediumHigh"},
                       swingv : {"Off", "Highest", "Lowest"}, swingh : {"Off", "Left"}]

Panasonic32_Init == ac \in {Panasonic32_stateReset} \cup {Panasonic32_panasonic32(w) : w \in Panasonic32_Wishes}

Panasonic32_Next ==
    \/ \E on \in BOOLEAN : ac' = Panasonic32_setPowerToggle(ac, on)
    \/ \E m \in {"Fan", "?"} : ac' = Panasonic32_setMode(ac, m)
    \/ ac' = Panasonic32_setTemp(ac, 40) \/ \E s \in {4, 9} : ac' = Panasonic32_setFan(ac, s)
    \/ ac' = Panasonic32_setSwingHorizontal(ac, TRUE)
    \/ \E p \in {0, 6} : ac' = Panasonic32_setSwingVertical(ac, p)

Panasonic32_TypeOK == ac \in Panasonic32_Object

(* A message with a toggle is read as the other power than before, one     *)
(* without as the same.                                                    *)
Panasonic32_Rules ==
    \A before \in BOOLEAN :
      Panasonic32_toCommon(Panasonic32_setPowerToggle(ac, FALSE), before).power = before
      /\ Panasonic32_toCommon(Panasonic32_setPowerToggle(ac, TRUE), before).power # before

(* A state that was read is sent as it was read, if what is sent for the   *)
(* power is the change from the state before (IRac::handleToggles).        *)
Panasonic32_Rereads ==
    \A before \in BOOLEAN :
      LET read == Panasonic32_toCommon(ac, before)
          sent == Panasonic32_panasonic32([read EXCEPT !.power = read.power # before])
      IN Panasonic32_toCommon(sent, before) = read

-----------------------------------------------------------------------------
Init ==
    \/ remote = "Panasonic" /\ Panasonic_Init
    \/ remote = "Panasonic32" /\ Panasonic32_Init

Next ==
    /\ UNCHANGED remote
    /\ \/ remote = "Panasonic" /\ Panasonic_Next
       \/ remote = "Panasonic32" /\ Panasonic32_Next

Spec == Init /\ [][Next]_<<remote, ac>>

(* The object stays one that its message can carry. *)
TypeOK ==
    CASE remote = "Panasonic" -> Panasonic_TypeOK
      [] remote = "Panasonic32" -> Panasonic32_TypeOK
      [] OTHER -> TRUE

(* What a class says of its settings together, see there. *)
Rules ==
    CASE remote = "Panasonic" -> Panasonic_Rules
      [] remote = "Panasonic32" -> Panasonic32_Rules
      [] OTHER -> TRUE

(* A state that was read from a message is sent as it was read, see there. *)
Rereads ==
    CASE remote = "Panasonic" -> Panasonic_Rereads
      [] remote = "Panasonic32" -> Panasonic32_Rereads
      [] OTHER -> TRUE
=============================================================================
