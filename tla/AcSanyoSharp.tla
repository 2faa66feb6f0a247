----------------------------- MODULE AcSanyoSharp -----------------------------
(***************************************************************************)
(* The remotes of Sanyo and Sharp: one object of one of the classes,       *)
(* `Sanyo', `Sanyo88', `Sharp'. What belongs to a class has its name in    *)
(* front, as in Sanyo_Next; after it come the names of the source.         *)
(***************************************************************************)
EXTENDS StdAc

VARIABLES
    remote,    \* the class
    ac         \* its object

-----------------------------------------------------------------------------
(***************************************************************************)
(* ir_Sanyo.h, ir_Sanyo.cpp, class IRSanyoAc: the remote may measure the   *)
(* temperature itself (iFeel) and tells it with the settings.              *)
(***************************************************************************)
Sanyo_Modes == {"Heat", "Cool", "Dry", "Auto"}
Sanyo_FanAuto == 0
Sanyo_FanHigh == 1
Sanyo_FanLow == 2
Sanyo_FanMedium == 3
Sanyo_TempMin == 16
Sanyo_TempMax == 30
Sanyo_TempDelta == 4
Sanyo_HourMax == 15
Sanyo_SwingVs == {0} \cup 2..7

Sanyo_Object == [Power : BOOLEAN, Mode : Sanyo_Modes, Temp : 0..31, SensorTemp : 0..31,
                 Sensor : BOOLEAN, Beep : BOOLEAN, Fan : 0..3, SwingV : Sanyo_SwingVs,
                 Sleep : BOOLEAN, OffTimer : BOOLEAN, OffHour : 0..Sanyo_HourMax]

(* 0x6A, 0x6D, 0x51, 0x00, 0x10, 0x45, 0x00, 0x00, 0x33. *)
Sanyo_stateReset == [Power |-> FALSE, Mode |-> "Heat", Temp |-> 13,
                     SensorTemp |-> 17, Sensor |-> FALSE, Beep |-> TRUE, Fan |-> 0,
                     SwingV |-> 5, Sleep |-> FALSE, OffTimer |-> FALSE, OffHour |-> 0]

Sanyo_setPower(a, on) == [a EXCEPT !.Power = on]
Sanyo_setMode(a, mode) == [a EXCEPT !.Mode = IF mode \in Sanyo_Modes THEN mode ELSE "Auto"]
Sanyo_setTemp(a, degrees) ==
    [a EXCEPT !.Temp = Clamp(degrees, Sanyo_TempMin, Sanyo_TempMax) - Sanyo_TempDelta]
Sanyo_setSensorTemp(a, degrees) ==
    [a EXCEPT !.SensorTemp = Clamp(degrees, Sanyo_TempMin, Sanyo_TempMax) - Sanyo_TempDelta]
Sanyo_setSensor(a, wall) == [a EXCEPT !.Sensor = wall]
Sanyo_setBeep(a, on) == [a EXCEPT !.Beep = on]
Sanyo_setSleep(a, on) == [a EXCEPT !.Sleep = on]

(* Two bits of whatever number it is. *)
Sanyo_setFan(a, speed) == [a EXCEPT !.Fan = speed % 4]
Sanyo_setSwingV(a, v) == [a EXCEPT !.SwingV = IF v \in Sanyo_SwingVs THEN v ELSE 0]

(* The hours of 65535 minutes at most are cut to eight bits, and limited. *)
Sanyo_setOffTimer(a, mins) ==
    LET hours == AtMost((mins \div 60) % 256, Sanyo_HourMax) IN
    [a EXCEPT !.OffTimer = hours > 0, !.OffHour = hours]
Sanyo_getOffTimer(a) == IF a.OffTimer THEN 60 * a.OffHour ELSE 0

Sanyo_convertMode(mode) == IF mode \in {"Cool", "Heat", "Dry"} THEN mode ELSE "Auto"
Sanyo_toCommonMode(mode) == mode

Sanyo_convertFan(speed) ==
    CASE speed \in {"Min", "Low"} -> Sanyo_FanLow [] speed = "Medium" -> Sanyo_FanMedium
      [] speed \in {"High", "Max"} -> Sanyo_FanHigh [] OTHER -> Sanyo_FanAuto

Sanyo_toCommonFanSpeed(fan) ==
    CASE fan = Sanyo_FanHigh -> "High" [] fan = Sanyo_FanMedium -> "Medium"
      [] fan = Sanyo_FanLow -> "Low" [] OTHER -> "Auto"

Sanyo_convertSwingV(v) ==
    CASE v = "Highest" -> 7 [] v = "High" -> 6 [] v = "Middle" -> 5
      [] v = "Low" -> 3 [] v = "Lowest" -> 2 [] OTHER -> 0

Sanyo_toCommonSwingV(v) ==
    CASE v = 7 -> "Highest" [] v = 6 -> "High" [] v \in {4, 5} -> "Middle"
      [] v = 3 -> "Low" [] v = 2 -> "Lowest" [] OTHER -> "Auto"

Sanyo_toCommon(a) ==
    [power |-> a.Power, mode |-> Sanyo_toCommonMode(a.Mode),
     degrees |-> a.Temp + Sanyo_TempDelta,
     sensorTemperature |-> a.SensorTemp + Sanyo_TempDelta,
     fan |-> Sanyo_toCommonFanSpeed(a.Fan), swingv |-> Sanyo_toCommonSwingV(a.SwingV),
     iFeel |-> ~a.Sensor, beep |-> a.Beep, sleep |-> a.Sleep]

Sanyo_NoTemp == -100      \* kNoTempValue: there is no reading

Sanyo_sanyo(w) ==
    LET cooled == Sanyo_setTemp(Sanyo_setMode(Sanyo_setPower(Sanyo_stateReset, w.power),
                                              Sanyo_convertMode(w.mode)), w.degrees)
        sensed == Sanyo_setSensorTemp(cooled, IF w.sensorTemperature # Sanyo_NoTemp
                                                THEN w.sensorTemperature
                                                ELSE w.degrees)
        blown == Sanyo_setSwingV(Sanyo_setFan(Sanyo_setSensor(sensed, ~w.iFeel),
                                              Sanyo_convertFan(w.fan)), Sanyo_convertSwingV(w.swingv))
    IN Sanyo_setSleep(Sanyo_setBeep(blown, w.beep), w.sleep)

Sanyo_Wishes == [power : BOOLEAN, mode : opmode_t, degrees : {15, 22, 31},
                 sensorTemperature : {Sanyo_NoTemp, 10}, fan : {"Auto", "Min"},
                 swingv : {"Off", "Middle", "Low"}, iFeel : BOOLEAN, beep : {FALSE},
                 sleep : {FALSE}]

Sanyo_Init == ac \in {Sanyo_stateReset} \cup {Sanyo_sanyo(w) : w \in Sanyo_Wishes}

Sanyo_Next ==
    \/ ac' = Sanyo_setPower(ac, TRUE) \/ ac' = Sanyo_setMode(ac, "?")
    \/ ac' = Sanyo_setTemp(ac, 31) \/ ac' = Sanyo_setSensorTemp(ac, 31)
    \/ ac' = Sanyo_setSensor(ac, TRUE) \/ ac' = Sanyo_setBeep(ac, FALSE)
    \/ ac' = Sanyo_setSleep(ac, TRUE) \/ ac' = Sanyo_setFan(ac, 7)
    \/ \E v \in {1, 4} : ac' = Sanyo_setSwingV(ac, v)
    \/ \E mins \in {59, 60, 300, 65535} : ac' = Sanyo_setOffTimer(ac, mins)

Sanyo_TypeOK == ac \in Sanyo_Object

(* A timer that runs has hours to run, also when the minutes are as many   *)
(* as their type holds, of which the hours do not fit eight bits.          *)
Sanyo_Rules ==
    /\ ac.OffTimer = (ac.OffHour > 0)
    /\ \A h \in 0..Sanyo_HourMax : Sanyo_getOffTimer(Sanyo_setOffTimer(ac, 60 * h + 59)) = 60 * h
    /\ Sanyo_getOffTimer(Sanyo_setOffTimer(ac, 65535)) = 60 * Sanyo_HourMax
    /\ Sanyo_getOffTimer(Sanyo_setOffTimer(ac, 60 * 256)) = 0

(* A state that was read is sent as it was read. *)
Sanyo_Rereads ==
    LET read == Sanyo_toCommon(ac) IN SameState(read, Sanyo_toCommon(Sanyo_sanyo(read)), {})

-----------------------------------------------------------------------------
(***************************************************************************)
(* ir_Sanyo.h, ir_Sanyo.cpp, class IRSanyoAc88: it tells the time of day.  *)
(***************************************************************************)
Sanyo88_Modes == {"Auto", "FeelCool", "Cool", "FeelHeat", "Heat", "Fan"}
Sanyo88_TempMin == 10
Sanyo88_TempMax == 30

Sanyo88_Object == [Power : BOOLEAN, Mode : Sanyo88_Modes, Fan : 0..3, Temp : 0..31,
                   Filter : BOOLEAN, SwingV : BOOLEAN, Turbo : BOOLEAN,
                   Sleep : BOOLEAN, ClockMins : 0..59, ClockHrs : 0..23]

(* 0xAA, 0x55, 0xA0, 0x16, 0x00, 0x00, 0x00, 0x01, 0x00, 0x00, 0x10. *)
Sanyo88_stateReset == [Power |-> TRUE, Mode |-> "Cool", Fan |-> 0, Temp |-> 22,
                       Filter |-> FALSE, SwingV |-> FALSE, Turbo |-> FALSE,
                       Sleep |-> FALSE, ClockMins |-> 0, ClockHrs |-> 0]

Sanyo88_setPower(a, on) == [a EXCEPT !.Power = on]
Sanyo88_setMode(a, mode) == [a EXCEPT !.Mode = IF mode \in Sanyo88_Modes THEN mode ELSE "Auto"]
Sanyo88_setTemp(a, degrees) == [a EXCEPT !.Temp = Clamp(degrees, Sanyo88_TempMin, Sanyo88_TempMax)]
Sanyo88_setFan(a, speed) == [a EXCEPT !.Fan = speed % 4]
Sanyo88_setSwingV(a, on) == [a EXCEPT !.SwingV = on]
Sanyo88_setTurbo(a, on) == [a EXCEPT !.Turbo = on]
Sanyo88_setFilter(a, on) == [a EXCEPT !.Filter = on]
Sanyo88_setSleep(a, on) == [a EXCEPT !.Sleep = on]

(* A mutant of setClock: a day has 24 hours and some minutes. *)
Sanyo88_setClock_Day(a, mins) ==
    LET m == AtMost(mins, 24 * 60) IN
    [a EXCEPT !.ClockMins = m % 60, !.ClockHrs = m \div 60]

Sanyo88_setClock(a, mins) ==
    LET m == AtMost(mins, 23 * 60 + 59) IN
    [a EXCEPT !.ClockMins = m % 60, !.ClockHrs = m \div 60]
Sanyo88_getClock(a) == 60 * a.ClockHrs + a.ClockMins

Sanyo88_convertMode(mode) == IF mode \in {"Cool", "Heat", "Fan"} THEN mode ELSE "Auto"

Sanyo88_toCommonMode(mode) ==
    CASE mode = "FeelCool" -> "Cool" [] mode = "FeelHeat" -> "Heat"
      [] OTHER -> mode

Sanyo88_convertFan(speed) ==
    CASE speed \in {"Min", "Low"} -> 1 [] speed = "Medium" -> 2
      [] speed \in {"High", "Max"} -> 3 [] OTHER -> 0

Sanyo88_toCommonFanSpeed(fan) ==
    CASE fan = 3 -> "High" [] fan = 2 -> "Medium" [] fan = 1 -> "Low"
      [] OTHER -> "Auto"

Sanyo88_toCommon(a) ==
    [power |-> a.Power, mode |-> Sanyo88_toCommonMode(a.Mode), degrees |-> a.Temp,
     fan |-> Sanyo88_toCommonFanSpeed(a.Fan), swingv |-> OnOff(a.SwingV),
     filter |-> a.Filter, turbo |-> a.Turbo, sleep |-> a.Sleep,
     clock |-> Sanyo88_getClock(a)]

Sanyo88_sanyo88(w) ==
    LET cooled == Sanyo88_setFan(Sanyo88_setTemp(Sanyo88_setMode(Sanyo88_setPower(Sanyo88_stateReset, w.power),
                                                                 Sanyo88_convertMode(w.mode)), w.degrees),
                                 Sanyo88_convertFan(w.fan))
        rest == Sanyo88_setSleep(Sanyo88_setFilter(Sanyo88_setTurbo(Sanyo88_setSwingV(cooled, w.swingv # "Off"),
                                                                    w.turbo), w.filter), w.sleep)
    IN IF w.clock >= 0 THEN Sanyo88_setClock(rest, w.clock) ELSE rest

Sanyo88_Wishes == [power : BOOLEAN, mode : opmode_t, degrees : {9, 20, 31},
                   fan : {"Auto", "Min", "Max"}, swingv : {"Off", "Low"},
                   turbo : {TRUE}, filter : BOOLEAN, sleep : {FALSE},
                   clock : {-1, 1439, 1440}]

Sanyo88_Init == ac \in {Sanyo88_stateReset} \cup {Sanyo88_sanyo88(w) : w \in Sanyo88_Wishes}

Sanyo88_Next ==
    \/ ac' = Sanyo88_setPower(ac, FALSE) \/ ac' = Sanyo88_setTemp(ac, 31) \/ ac' = Sanyo88_setFan(ac, 6)
    \/ \E m \in {"FeelHeat", "FeelCool", "?"} : ac' = Sanyo88_setMode(ac, m)
    \/ ac' = Sanyo88_setSwingV(ac, FALSE) \/ ac' = Sanyo88_setTurbo(ac, FALSE)
    \/ ac' = Sanyo88_setFilter(ac, FALSE) \/ ac' = Sanyo88_setSleep(ac, TRUE)
    \/ \E mins \in {0, 65535} : ac' = Sanyo88_setClock(ac, mins)

Sanyo88_TypeOK == ac \in Sanyo88_Object

(* A clock that was set to a minute of the day tells it. *)
Sanyo88_Rules ==
    /\ \A n \in {0, 59, 60, 1439} : Sanyo88_getClock(Sanyo88_setClock(ac, n)) = n
    /\ Sanyo88_getClock(Sanyo88_setClock(ac, 1440)) = 1439

(* A state that was read is sent as it was read; the two modes that follow *)
(* the remote's own sensor are read, and sent, as the plain ones.          *)
Sanyo88_Rereads ==
    LET read == Sanyo88_toCommon(ac) IN SameState(read, Sanyo88_toCommon(Sanyo88_sanyo88(read)),
                                                  {})

-----------------------------------------------------------------------------
(***************************************************************************)
(* ir_Sharp.h, ir_Sharp.cpp, class IRSharpAc.  PowerSpecial is power and   *)
(* the kind of message in one field, Special the button that was pressed;  *)
(* temp, mode, fan and model are kept beside the message (_temp, ...).     *)
(***************************************************************************)
Sharp_Models == {"A907", "A705", "A903"}
Sharp_Modes == {"Auto", "Dry", "Cool", "Heat"}     \* Auto is also Fan

Sharp_PowerUnknown == 0
Sharp_PowerOnFromOff == 1
Sharp_PowerOff == 2
Sharp_PowerOn == 3
Sharp_PowerSetSpecialOn == 6
Sharp_PowerSetSpecialOff == 7
Sharp_PowerTimerSetting == 8
Sharp_Powers == {Sharp_PowerUnknown, Sharp_PowerOnFromOff, Sharp_PowerOff, Sharp_PowerOn,
                 Sharp_PowerSetSpecialOn,
                 Sharp_PowerSetSpecialOff, Sharp_PowerTimerSetting}

Sharp_Specials == {"Power", "Turbo", "TempEcono", "Fan", "Swing", "Timer",
                   "TimerHalfHour"}

Sharp_FanAuto == 2
Sharp_FanMin == 4
Sharp_FanMed == 3        \* low for two of the models
Sharp_FanHigh == 5       \* medium for them
Sharp_FanMax == 7
Sharp_Fans == {Sharp_FanAuto, Sharp_FanMin, Sharp_FanMed, Sharp_FanHigh, Sharp_FanMax}

Sharp_Swings == {"Ignore", "High", "Off", "Mid", "Low", "Last", "Coanda", "Toggle"}

Sharp_Object == [Temp : 0..15, Model : BOOLEAN, Model2 : BOOLEAN,
                 PowerSpecial : Sharp_Powers, Mode : Sharp_Modes, Clean : BOOLEAN,
                 Fan : Sharp_Fans \cup {0}, Swing : Sharp_Swings, Ion : BOOLEAN,
                 Special : Sharp_Specials, TimerEnabled : BOOLEAN, TimerOn : BOOLEAN,
                 TimerHours : 0..12, temp : 15..30, mode : Sharp_Modes,
                 fan : Sharp_Fans \cup {0}, model : Sharp_Models]

Sharp_setPowerSpecial(a, n) == [a EXCEPT !.PowerSpecial = n]

(* The two lower bits are left: 6, special on, becomes 2, which is off,    *)
(* and 8, the setting of a timer, becomes 0, which is unknown.             *)
Sharp_clearPowerSpecial(a) == [a EXCEPT !.PowerSpecial = @ % 4]
Sharp_getPower(a) == a.PowerSpecial \notin {Sharp_PowerUnknown, Sharp_PowerOff}

Sharp_setSpecial(a, s) ==
    [a EXCEPT !.Special = IF s \in Sharp_Specials THEN s ELSE "Power"]

(* The byte of the temperature is written whole, with one bit of the model.*)
Sharp_setTemp(a, temp, save) ==
    LET t == Clamp(temp, 15, 30) IN
    IF a.Mode \in {"Auto", "Dry"} THEN [a EXCEPT !.Temp = 0, !.Model = FALSE]
    ELSE Sharp_setSpecial(Sharp_clearPowerSpecial(
           [a EXCEPT !.Temp = t - 15, !.Model = a.model = "A705",
                     !.temp = IF save THEN t ELSE @]), "TempEcono")

Sharp_setFan(a, speed, save) ==
    LET known == speed \in Sharp_Fans
        b == [a EXCEPT !.Fan = IF known THEN speed ELSE Sharp_FanAuto,
                       !.fan = CASE ~known -> Sharp_FanAuto [] save -> speed
                                 [] OTHER -> @]
    IN Sharp_clearPowerSpecial(Sharp_setSpecial(b, "Fan"))

(* Two of the models have Fan where the third has Heat. *)
Sharp_RealMode(a, mode) ==
    IF mode \notin Sharp_Modes \/ (mode = "Heat" /\ a.model # "A907")
      THEN "Auto" ELSE mode

Sharp_InMode(a, mode, save) ==
    LET b == IF mode \in {"Auto", "Dry"} THEN Sharp_setFan(a, Sharp_FanAuto, FALSE) ELSE a
        c == Sharp_setTemp([b EXCEPT !.Mode = mode], a.temp, FALSE)
    IN Sharp_clearPowerSpecial(Sharp_setSpecial([c EXCEPT !.mode = IF save THEN mode ELSE @],
                                                "Power"))

Sharp_setMode(a, mode, save) == Sharp_InMode(a, Sharp_RealMode(a, mode), save)

Sharp_setModel(a, model) ==
    LET m == IF model \in {"A705", "A903"} THEN model ELSE "A907" IN
    Sharp_setMode([a EXCEPT !.model = m, !.Model = m # "A907",
                            !.Model2 = m # "A907"], a.Mode, TRUE)

(* What the bits of a message that was received are taken for. *)
Sharp_getModel(a) ==
    CASE ~a.Model2 -> "A907" [] a.Model -> "A705" [] OTHER -> "A903"

Sharp_CleanOff(a) ==
    Sharp_clearPowerSpecial([Sharp_setFan(Sharp_setMode(a, a.mode, FALSE), a.fan, FALSE)
                             EXCEPT !.Clean = FALSE])

Sharp_setPower(a, on, prev_on) ==
    LET b == Sharp_setPowerSpecial(a, CASE ~on -> Sharp_PowerOff [] prev_on -> Sharp_PowerOn
                                        [] OTHER -> Sharp_PowerOnFromOff)
    IN Sharp_setSpecial(IF b.Clean THEN Sharp_CleanOff(b) ELSE b, "Power")

Sharp_setClean(a, on) ==
    IF on THEN Sharp_clearPowerSpecial([Sharp_setPower(Sharp_setMode(a, "Dry", FALSE), TRUE,
                                                       FALSE)
                                        EXCEPT !.Clean = TRUE])
          ELSE Sharp_CleanOff(a)

Sharp_setTurbo(a, on) ==
    Sharp_setSpecial(Sharp_setPowerSpecial(IF on THEN Sharp_setFan(a, Sharp_FanMax,
                                                                   TRUE) ELSE a,
                                           IF on THEN Sharp_PowerSetSpecialOn
                                                 ELSE Sharp_PowerSetSpecialOff), "Turbo")
Sharp_getTurbo(a) == a.PowerSpecial = Sharp_PowerSetSpecialOn /\ a.Special = "Turbo"

(* Econo of one model and light of the others are the same button. *)
Sharp__setEconoToggle(a, on) ==
    Sharp_setPowerSpecial(IF on THEN Sharp_setSpecial(a, "TempEcono") ELSE a,
                          IF on THEN Sharp_PowerSetSpecialOn ELSE Sharp_PowerSetSpecialOff)
Sharp__getEconoToggle(a) ==
    a.PowerSpecial = Sharp_PowerSetSpecialOn /\ a.Special = "TempEcono"
Sharp_setEconoToggle(a, on) ==
    IF a.model = "A907" THEN Sharp__setEconoToggle(a, on) ELSE a
Sharp_setLightToggle(a, on) ==
    IF a.model # "A907" THEN Sharp__setEconoToggle(a, on) ELSE a
Sharp_getLightToggle(a) == a.model # "A907" /\ Sharp__getEconoToggle(a)

(* Coanda, the lowest, is for Heat alone. *)
Sharp_setSwingV(a, position) ==
    LET p == IF position = "Coanda" /\ a.Mode # "Heat" THEN "Low" ELSE position
    IN [(IF p = "Ignore" THEN a ELSE Sharp_setSpecial(a, "Swing")) EXCEPT !.Swing = p]
Sharp_setSwingToggle(a, on) == Sharp_setSwingV(a, IF on THEN "Toggle" ELSE "Ignore")

Sharp_setIon(a, on) ==
    LET b == Sharp_clearPowerSpecial([a EXCEPT !.Ion = on]) IN
    IF on THEN Sharp_setSpecial(b, "Swing") ELSE b

Sharp_setTimer(a, enable, onTimer, mins) ==
    LET asked == AtMost(mins \div 30, 24)
        runs == enable /\ asked # 0
        halves == IF runs THEN asked ELSE 0
    IN Sharp_setPowerSpecial(
         Sharp_setSpecial([a EXCEPT !.TimerEnabled = runs,
                                    !.TimerOn = runs /\ onTimer,
                                    !.TimerHours = halves \div 2],
                          IF halves % 2 = 1 THEN "TimerHalfHour" ELSE "Timer"),
         Sharp_PowerTimerSetting)
Sharp_getTimerTime(a) ==
    60 * a.TimerHours + (IF a.Special = "TimerHalfHour" THEN 30 ELSE 0)

Sharp_stateReset ==
    [Temp |-> 0, Model |-> FALSE, Model2 |-> FALSE,
     PowerSpecial |-> Sharp_PowerUnknown, Mode |-> "Auto", Clean |-> FALSE,
     Fan |-> 0, Swing |-> "Ignore", Ion |-> FALSE, Special |-> "Power",
     TimerEnabled |-> FALSE, TimerOn |-> FALSE, TimerHours |-> 0,
     temp |-> 15, mode |-> "Auto", fan |-> 0, model |-> "A907"]

Sharp_convertMode(mode) == IF mode \in {"Cool", "Heat", "Dry"} THEN mode ELSE "Auto"

Sharp_convertFan(speed, model) ==
    CASE model # "A907" /\ speed = "Low" -> Sharp_FanMed
      [] model # "A907" /\ speed = "Medium" -> Sharp_FanHigh
      [] speed \in {"Min", "Low"} -> Sharp_FanMin [] speed = "Medium" -> Sharp_FanMed
      [] speed = "High" -> Sharp_FanHigh [] speed = "Max" -> Sharp_FanMax
      [] OTHER -> Sharp_FanAuto

Sharp_convertSwingV(position) ==
    CASE position \in {"Highest", "High"} -> "High" [] position = "Middle" -> "Mid"
      [] position = "Low" -> "Low" [] position = "Lowest" -> "Coanda"
      [] position = "Auto" -> "Toggle" [] position = "Off" -> "Off"
      [] OTHER -> "Ignore"

Sharp_toCommonMode(a) ==
    IF a.Mode = "Auto" /\ a.model = "A705" THEN "Fan" ELSE a.Mode

Sharp_toCommonFanSpeed(a) ==
    CASE a.model # "A907" /\ a.Fan = Sharp_FanMed -> "Low"
      [] a.model # "A907" /\ a.Fan = Sharp_FanHigh -> "Medium"
      [] a.Fan = Sharp_FanMax -> "Max" [] a.Fan = Sharp_FanHigh -> "High"
      [] a.Fan = Sharp_FanMed -> "Medium" [] a.Fan = Sharp_FanMin -> "Min"
      [] OTHER -> "Auto"

Sharp_toCommonSwingV(a) ==
    CASE a.Swing = "High" -> "Highest" [] a.Swing = "Mid" -> "Middle"
      [] a.Swing = "Low" -> "Low" [] a.Swing = "Toggle" -> "Auto"
      [] a.Swing = "Coanda" /\ a.Mode = "Cool" -> "Highest"
      [] a.Swing = "Coanda" /\ a.Mode = "Heat" -> "Lowest"
      [] OTHER -> "Off"

(* before: the vertical swing of the state it was received in. *)
Sharp_toCommon(a, before) ==
    [model |-> a.model, power |-> Sharp_getPower(a), mode |-> Sharp_toCommonMode(a),
     degrees |-> a.Temp + 15, fan |-> Sharp_toCommonFanSpeed(a),
     swingv |-> IF a.Swing = "Ignore" THEN before ELSE Sharp_toCommonSwingV(a),
     turbo |-> Sharp_getTurbo(a), light |-> Sharp_getLightToggle(a), filter |-> a.Ion,
     clean |-> a.Clean]

(* The object at its last send; two more, one with the unit off before     *)
(* clean and one before turbo, are not told apart from it here.            *)
Sharp_sharp(w, prev_power, prev_swingv) ==
    LET moded == Sharp_setMode(Sharp_setModel(Sharp_stateReset, w.model),
                               Sharp_convertMode(w.mode), TRUE)
        cooled == Sharp_setFan(Sharp_setTemp(moded, w.degrees, TRUE),
                               Sharp_convertFan(w.fan, w.model), TRUE)
        swung == IF w.swingv # prev_swingv
                   THEN Sharp_setSwingV(cooled, Sharp_convertSwingV(w.swingv)) ELSE cooled
        again == Sharp_setMode(Sharp_setLightToggle(Sharp_setIon(swung, w.filter), w.light),
                               Sharp_convertMode(w.mode), TRUE)
        off == IF w.clean THEN Sharp_setPower(again, FALSE, prev_power) ELSE again
        powered == Sharp_setPower(Sharp_setClean(off, w.clean), w.power, prev_power)
    IN IF w.turbo THEN Sharp_setTurbo(powered, TRUE) ELSE powered

Sharp_Wishes == [model : Sharp_Models, power : {TRUE}, mode : opmode_t,
                 degrees : {14, 22}, fan : {"Auto", "Low"},
                 swingv : {"Off", "Lowest"}, turbo : BOOLEAN,
                 light : {TRUE}, filter : {TRUE}, clean : BOOLEAN]

Sharp_Init == ac \in {Sharp_stateReset} \cup {Sharp_sharp(w, FALSE, "Off") : w \in Sharp_Wishes}

Sharp_Next ==
    \/ ac' = Sharp_setModel(ac, "A903")
    \/ \E on \in BOOLEAN : ac' = Sharp_setPower(ac, on, TRUE)
    \/ \E m \in {"Dry", "Heat", "Cool"} : ac' = Sharp_setMode(ac, m, TRUE)
    \/ ac' = Sharp_setTemp(ac, 31, TRUE)
    \/ ac' = Sharp_setFan(ac, 9, TRUE)
    \/ \E on \in BOOLEAN : ac' = Sharp_setTurbo(ac, on)
    \/ ac' = Sharp_setEconoToggle(ac, TRUE) \/ ac' = Sharp_setLightToggle(ac, TRUE)
    \/ ac' = Sharp_setSwingV(ac, "Coanda") \/ ac' = Sharp_setSwingToggle(ac, FALSE)
    \/ ac' = Sharp_setIon(ac, TRUE)
    \/ ac' = Sharp_setTimer(ac, TRUE, TRUE, 30)
    \/ \E on \in BOOLEAN : ac' = Sharp_setClean(ac, on)

Sharp_TypeOK == ac \in Sharp_Object

(* Auto and Dry have no temperature; Heat is for one model; cleaning is in *)
(* Dry until a mode is asked for, and any mode that was asked for before   *)
(* comes back with its fan when it ends; a button pressed after turbo, or  *)
(* after a timer, takes the power with it, since that is in the same field;*)
(* and a model's bits are those of another one where the mode has no       *)
(* temperature.                                                            *)
Sharp_Rules ==
    /\ ac.Mode \in {"Auto", "Dry"} => ac.Temp = 0 /\ ~ac.Model
    /\ ac.Mode = "Heat" \/ ac.mode = "Heat" => ac.model = "A907"
    /\ LET after == Sharp_setClean(Sharp_setClean(ac, TRUE), FALSE) IN
         after.Mode = Sharp_RealMode(ac, ac.mode) /\ after.fan \in {ac.fan, Sharp_FanAuto}
    /\ ~Sharp_getPower(Sharp_setIon(Sharp_setTurbo(ac, TRUE), FALSE))
    /\ ~Sharp_getPower(Sharp_setIon(Sharp_setTimer(ac, TRUE, TRUE, 60), FALSE))
    /\ Sharp_getModel(ac) # ac.model => ac.model = "A705" /\ ac.Mode \in {"Auto", "Dry"}
    /\ \A h \in 1..24 : Sharp_getTimerTime(Sharp_setTimer(ac, TRUE, FALSE, 30 * h)) = 30 * h

(* A state that was read is sent as it was read, but for the light, which  *)
(* the second setMode of IRac's function undoes; for clean, which the      *)
(* setPower after it ends; and for a swing kept from Heat in another mode. *)
Sharp_Rereads ==
    \A before \in {"Off", "Auto"} :
      LET read == Sharp_toCommon(ac, before)
          again == Sharp_toCommon(Sharp_sharp(read, FALSE, before), before)
      IN /\ SameState(read, again,
                      {"light", "clean"}
                      \cup (IF ac.Swing = "Coanda" THEN {"swingv"} ELSE {})
                      \cup (IF ac.Mode \in {"Auto", "Dry"} THEN {"degrees"} ELSE {}))
         /\ ~again.clean /\ ~again.light

-----------------------------------------------------------------------------
Init ==
    \/ remote = "Sanyo" /\ Sanyo_Init
    \/ remote = "Sanyo88" /\ Sanyo88_Init
    \/ remote = "Sharp" /\ Sharp_Init

Next ==
    /\ UNCHANGED remote
    /\ \/ remote = "Sanyo" /\ Sanyo_Next
       \/ remote = "Sanyo88" /\ Sanyo88_Next
       \/ remote = "Sharp" /\ Sharp_Next

Spec == Init /\ [][Next]_<<remote, ac>>

(* The object stays one that its message can carry. *)
TypeOK ==
    CASE remote = "Sanyo" -> Sanyo_TypeOK
      [] remote = "Sanyo88" -> Sanyo88_TypeOK
      [] remote = "Sharp" -> Sharp_TypeOK
      [] OTHER -> TRUE

(* What a class says of its settings together, see there. *)
Rules ==
    CASE remote = "Sanyo" -> Sanyo_Rules
      [] remote = "Sanyo88" -> Sanyo88_Rules
      [] remote = "Sharp" -> Sharp_Rules
      [] OTHER -> TRUE

(* A state that was read from a message is sent as it was read, see there. *)
Rereads ==
    CASE remote = "Sanyo" -> Sanyo_Rereads
      [] remote = "Sanyo88" -> Sanyo88_Rereads
      [] remote = "Sharp" -> Sharp_Rereads
      [] OTHER -> TRUE
=============================================================================
