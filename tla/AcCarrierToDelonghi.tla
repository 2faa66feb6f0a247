------------------------- MODULE AcCarrierToDelonghi --------------------------
(***************************************************************************)
(* The remotes of Carrier, Coolix, Corona and De'Longhi: one object of one *)
(* of the classes, `Carrier64', `Coolix', `Corona', `Delonghi'. What belongs*)
(* to a class has its name in front, as in Carrier64_Next; after it come the*)
(* names of the source.                                                    *)
(***************************************************************************)
EXTENDS StdAc, Sequences

VARIABLES
    remote,    \* the class
    ac         \* its object

-----------------------------------------------------------------------------
(***************************************************************************)
(* ir_Carrier.h, ir_Carrier.cpp (CARRIER_AC64): sleep and the two timers   *)
(* exclude each other, through setters that call each other.               *)
(***************************************************************************)
Carrier64_Modes == {"Heat", "Cool", "Fan"}
Carrier64_Fans == {"Auto", "Low", "Medium", "High"}

Carrier64_Object == [Power : BOOLEAN, Mode : Carrier64_Modes, Fan : Carrier64_Fans,
                     Temp : 0..14,
                     SwingV : BOOLEAN, Sleep : BOOLEAN, OnTimerEnable : BOOLEAN,
                     OnTimer : 0..9, OffTimerEnable : BOOLEAN, OffTimer : 0..9]

(* 0x109000002C2A5584. *)
Carrier64_stateReset == [Power |-> FALSE, Mode |-> "Cool", Fan |-> "Auto", Temp |-> 12,
                         SwingV |-> TRUE, Sleep |-> FALSE, OnTimerEnable |-> FALSE,
                         OnTimer |-> 9, OffTimerEnable |-> FALSE, OffTimer |-> 1]

Carrier64_setPower(a, on) == [a EXCEPT !.Power = on]
Carrier64_setTemp(a, temp) == [a EXCEPT !.Temp = Clamp(temp, 16, 30) - 16]
Carrier64_setMode(a, mode) == [a EXCEPT !.Mode = IF mode \in Carrier64_Modes THEN mode ELSE "Cool"]
Carrier64_setFan(a, speed) == [a EXCEPT !.Fan = IF speed \in Carrier64_Fans THEN speed ELSE "Auto"]
Carrier64_setSwingV(a, on) == [a EXCEPT !.SwingV = on]

(* setSleep(false), which setOnTimer() and setOffTimer() call. *)
Carrier64_SleepOff(a) == [a EXCEPT !.Sleep = FALSE]

(* Hours in one byte, at most nine. *)
Carrier64_Hours(mins) == AtMost((mins \div 60) % 256, 9)

Carrier64_setOnTimer(a, mins) ==
    LET h == Carrier64_Hours(mins)
        b == [a EXCEPT !.OnTimerEnable = h > 0, !.OnTimer = AtLeast(1, h)]
    IN IF h > 0 THEN Carrier64_SleepOff([b EXCEPT !.OffTimerEnable = FALSE]) ELSE b

Carrier64_setOffTimer(a, mins) ==
    LET h == Carrier64_Hours(mins)
        b == [a EXCEPT !.OffTimerEnable = h > 0 /\ ~a.Sleep,
                       !.OffTimer = AtLeast(1, h)]
    IN IF h > 0 THEN Carrier64_SleepOff([b EXCEPT !.OnTimerEnable = FALSE]) ELSE b

Carrier64_setSleep(a, on) ==
    IF on
      THEN [Carrier64_setOffTimer(a, 2 * 60) EXCEPT !.OnTimerEnable = FALSE,
                                                    !.OffTimerEnable = FALSE,
                                                    !.Sleep = TRUE]
      ELSE Carrier64_SleepOff(a)

Carrier64_convertMode(mode) == IF mode \in {"Heat", "Fan"} THEN mode ELSE "Cool"

Carrier64_convertFan(fan) ==
    CASE fan \in {"Min", "Low"} -> "Low" [] fan = "Medium" -> "Medium"
      [] fan \in {"High", "Max"} -> "High" [] OTHER -> "Auto"

Carrier64_toCommon(a) ==
    [power |-> a.Power, mode |-> a.Mode, degrees |-> a.Temp + 16,
     fan |-> a.Fan, swingv |-> OnOff(a.SwingV), sleep |-> a.Sleep]

Carrier64_carrier64(w) ==
    Carrier64_setSleep(Carrier64_setSwingV(Carrier64_setFan(Carrier64_setTemp(Carrier64_setMode(Carrier64_setPower(Carrier64_stateReset, w.power),
                                                                                                Carrier64_convertMode(w.mode)),
                                                                              w.degrees),
                                                            Carrier64_convertFan(w.fan)),
                                           w.swingv # "Off"),
                       w.sleep)

Carrier64_Wishes == [power : BOOLEAN, mode : opmode_t, degrees : {15, 23, 31},
                     fan : fanspeed_t, swingv : {"Off", "Auto", "High"},
                     sleep : BOOLEAN]

Carrier64_Minutes == {0, 59, 60, 599, 600, 256 * 60}

Carrier64_Init == ac \in {Carrier64_stateReset} \cup {Carrier64_carrier64(w) : w \in Carrier64_Wishes}

Carrier64_Next ==
    \/ \E on \in BOOLEAN : ac' = Carrier64_setPower(ac, on)
    \/ \E m \in Carrier64_Modes \cup {"?"} : ac' = Carrier64_setMode(ac, m)
    \/ \E f \in {"Low", "?"} : ac' = Carrier64_setFan(ac, f)
    \/ \E t \in {15, 31} : ac' = Carrier64_setTemp(ac, t)
    \/ \E on \in BOOLEAN : ac' = Carrier64_setSwingV(ac, on)
    \/ \E on \in BOOLEAN : ac' = Carrier64_setSleep(ac, on)
    \/ \E n \in Carrier64_Minutes : ac' = Carrier64_setOnTimer(ac, n)
    \/ \E n \in Carrier64_Minutes : ac' = Carrier64_setOffTimer(ac, n)

Carrier64_TypeOK == ac \in Carrier64_Object

(* "If enabled, disable the Off Timer & Sleep mode", "sleep ... disables   *)
(* both timers" (ir_Carrier.cpp:472, 434): of the three at most one is on. *)
(* An off timer that is set while the unit sleeps ends the sleep without   *)
(* being on; the second time it is.                                        *)
Carrier64_Rules ==
    /\ ~(ac.OnTimerEnable /\ ac.OffTimerEnable)
    /\ ac.Sleep => ~ac.OnTimerEnable /\ ~ac.OffTimerEnable
    /\ LET once == Carrier64_setOffTimer(ac, 60) IN
       ~once.Sleep /\ (once.OffTimerEnable = ~ac.Sleep)
       /\ Carrier64_setOffTimer(once, 60).OffTimerEnable

(* A state that was read is sent as it was read. *)
Carrier64_Rereads == SameState(Carrier64_toCommon(ac),
                               Carrier64_toCommon(Carrier64_carrier64(Carrier64_toCommon(ac))), {})

-----------------------------------------------------------------------------
(***************************************************************************)
(* ir_Coolix.h, ir_Coolix.cpp: a message is either the settings or one of  *)
(* the commands, which take the place of the settings until they are sent; *)
(* Fan is Dry with a temperature of its own; degrees Fahrenheit have a     *)
(* table for each half of their range.                                     *)
(*                                                                         *)
(* Settings are set only while the message is not a command, as IRac does: *)
(* after a command they would overwrite bits of the command.               *)
(***************************************************************************)
Coolix_Modes == {"Cool", "Dry", "Auto", "Heat"}
Coolix_Fans == {"Min", "Med", "Max", "Auto", "Auto0", "ZoneFollow", "Fixed"}
Coolix_Commands == {"Off", "Swing", "SwingV", "Sleep", "Turbo", "Led", "Clean"}
Coolix_None == "None"

Coolix_kCoolixFanTempCode == 14
Coolix_kCoolixTempMap == <<0, 1, 3, 2, 6, 7, 5, 4, 12, 13, 9, 8, 10, 11>>
Coolix_kCoolixTempMapLowF == <<12, 2, 10, 6, 14, 1, 9, 5, 13, 3, 11, 7, 15>>
Coolix_kCoolixTempMapHighF == <<0, 8, 4, 12, 2, 10, 6, 14, 1, 9, 5>>
Coolix_SensorTempIgnoreCode == 31

Coolix_Settings == [Mode : Coolix_Modes, Temp : 0..15, Fan : Coolix_Fans, ZoneFollow : BOOLEAN,
                    SensorTemp : 0..30 \cup {Coolix_SensorTempIgnoreCode}]

Coolix_Object == [command : Coolix_Commands \cup {Coolix_None}, set : Coolix_Settings,
                  saved : Coolix_Settings,
                  savedFan : Coolix_Fans, power : BOOLEAN,
                  range : {"Celsius", "LowF", "HighF"},
                  toggled : SUBSET {"Swing", "Sleep", "Turbo", "Led", "Clean"}]

(* 0xB21FC8. *)
Coolix_DefaultState == [Mode |-> "Auto", Temp |-> 12, Fan |-> "Auto0",
                        ZoneFollow |-> FALSE, SensorTemp |-> Coolix_SensorTempIgnoreCode]

Coolix_stateReset ==
    [command |-> Coolix_None, set |-> Coolix_DefaultState, saved |-> Coolix_DefaultState,
     savedFan |-> "Auto0", power |-> FALSE, range |-> "Celsius",
     toggled |-> {}]

Coolix_isSpecialState(a) == a.command # Coolix_None

Coolix_TableOf(range) == CASE range = "LowF" -> Coolix_kCoolixTempMapLowF
                           [] range = "HighF" -> Coolix_kCoolixTempMapHighF
                           [] OTHER -> Coolix_kCoolixTempMap

Coolix_LowestOf(range) == CASE range = "LowF" -> 63 [] range = "HighF" -> 76
                            [] OTHER -> 17

Coolix_RangeOf(degrees) == CASE degrees \in 63..75 -> "LowF"
                             [] degrees \in 76..86 -> "HighF"
                             [] OTHER -> "Celsius"

Coolix_setTemp(a, desired) ==
    LET r == Coolix_RangeOf(desired)
        d == IF r = "Celsius" THEN Clamp(desired, 17, 30) ELSE desired
    IN [a EXCEPT !.range = r, !.set.Temp = Coolix_TableOf(r)[d - Coolix_LowestOf(r) + 1]]

(* A code that its table does not have is looked up in the Celsius one. *)
Coolix_getTemp(a) ==
    LET Found(r) == {i \in DOMAIN Coolix_TableOf(r) : Coolix_TableOf(r)[i] = a.set.Temp}
        Degrees(r) == Coolix_LowestOf(r) - 1 + CHOOSE i \in Found(r) : TRUE
    IN CASE Found(a.range) # {} -> Degrees(a.range)
         [] Found(a.range) = {} /\ Found("Celsius") # {} -> Degrees("Celsius")
         [] OTHER -> 30

Coolix_getMode(a) ==
    IF a.set.Mode = "Dry" /\ a.set.Temp = Coolix_kCoolixFanTempCode THEN "Fan"
                                                                    ELSE a.set.Mode

(* One code for the automatic fan in Auto and Dry, another elsewhere. *)
Coolix_AutoFan(mode) == IF mode \in {"Auto", "Dry"} THEN "Auto0" ELSE "Auto"

(* setFan with modecheck off: the speed as it is; the one before is kept,  *)
(* unless it was that of following a zone.                                 *)
Coolix_KeepFan(a, speed) ==
    [a EXCEPT !.set.Fan = speed,
              !.savedFan = IF a.set.Fan = "ZoneFollow" THEN @ ELSE a.set.Fan]

Coolix_setFan(a, speed) ==
    Coolix_KeepFan(a, CASE speed \in {"Auto", "Auto0"} -> Coolix_AutoFan(Coolix_getMode(a))
                        [] speed \in Coolix_Fans \ {"Auto", "Auto0"} -> speed
                        [] OTHER -> "Auto")

(* An unknown mode sets Auto, and the fan once more. *)
Coolix_setMode(a, mode) ==
    LET m == IF mode \in Coolix_Modes \cup {"Fan"} THEN mode ELSE "Auto"
        b == Coolix_KeepFan(a, Coolix_AutoFan(m))
        c == [Coolix_setTemp(b, Coolix_getTemp(b)) EXCEPT !.set.Mode = m]
    IN CASE m = "Fan" -> [c EXCEPT !.set.Mode = "Dry",
                                   !.set.Temp = Coolix_kCoolixFanTempCode]
         [] mode = m /\ m # "Fan" -> c
         [] OTHER -> Coolix_KeepFan(c, "Auto0")

Coolix_setZoneFollow(a, on) ==
    Coolix_setFan([a EXCEPT !.set.ZoneFollow = on],
                  IF on THEN "ZoneFollow" ELSE a.savedFan)

Coolix_setSensorTemp(a, temp) ==
    Coolix_setZoneFollow([a EXCEPT !.set.SensorTemp = AtMost(temp, 30)], TRUE)

Coolix_clearSensorTemp(a) ==
    [Coolix_setZoneFollow(a, FALSE) EXCEPT !.set.SensorTemp = Coolix_SensorTempIgnoreCode]

Coolix_updateAndSaveState(a, command) ==
    [a EXCEPT !.command = command,
              !.saved = IF Coolix_isSpecialState(a) THEN @ ELSE a.set]

Coolix_recoverSavedState(a) ==
    IF Coolix_isSpecialState(a) THEN [a EXCEPT !.command = Coolix_None, !.set = a.saved]
                                ELSE a

Coolix_setPower(a, on) ==
    LET b == CASE ~on -> Coolix_updateAndSaveState(a, "Off")
               [] on /\ ~a.power -> Coolix_recoverSavedState(a)
               [] OTHER -> a
    IN [b EXCEPT !.power = on]

(* setSwing, setSleep, setTurbo, setLed, setClean; setSwingVStep has no flag. *)
Coolix_setCommand(a, command) ==
    [Coolix_updateAndSaveState(a, command) EXCEPT
       !.toggled = CASE command = "SwingV" -> @
                     [] command # "SwingV" /\ command \in @ -> @ \ {command}
                     [] OTHER -> @ \cup {command}]

Coolix_send(a) == Coolix_recoverSavedState(a)

Coolix_convertMode(mode) ==
    IF mode \in {"Cool", "Heat", "Dry", "Fan"} THEN mode ELSE "Auto"

Coolix_convertFan(fan) ==
    CASE fan \in {"Min", "Low"} -> "Min" [] fan = "Medium" -> "Med"
      [] fan \in {"High", "Max"} -> "Max" [] OTHER -> "Auto"

Coolix_toCommonFanSpeed(fan) ==
    CASE fan = "Med" -> "Medium" [] fan \in {"Max", "Min"} -> fan
      [] OTHER -> "Auto"

Coolix_kNoTempValue == -1

(* The settings of a message that is no command. *)
Coolix_toCommon(a) ==
    [power |-> a.power, mode |-> Coolix_getMode(a), degrees |-> Coolix_getTemp(a),
     sensor |-> IF a.set.SensorTemp = Coolix_SensorTempIgnoreCode
                  THEN Coolix_kNoTempValue ELSE a.set.SensorTemp,
     iFeel |-> a.set.ZoneFollow, fan |-> Coolix_toCommonFanSpeed(a.set.Fan)]

(* The object when the settings are sent; the commands come after that. *)
Coolix_coolix(w) ==
    LET on == Coolix_setPower(Coolix_stateReset, TRUE)
        moded == Coolix_setMode(Coolix_setTemp(on, w.degrees), Coolix_convertMode(w.mode))
        fanned == Coolix_setFan(moded, Coolix_convertFan(w.fan))
        sensed == IF w.sensor # Coolix_kNoTempValue THEN Coolix_setSensorTemp(fanned, w.sensor)
                                                    ELSE Coolix_clearSensorTemp(fanned)
    IN IF w.power THEN Coolix_setZoneFollow(sensed, w.iFeel)
                  ELSE Coolix_setPower(Coolix_stateReset, FALSE)

Coolix_Wishes == [power : BOOLEAN, mode : opmode_t, degrees : {16, 67},
                  fan : {"Auto", "Min"}, sensor : {Coolix_kNoTempValue, 20},
                  iFeel : BOOLEAN]

Coolix_Init == ac \in {Coolix_stateReset} \cup {Coolix_coolix(w) : w \in Coolix_Wishes}

Coolix_Settable == ~Coolix_isSpecialState(ac)

Coolix_Next ==
    \/ \E on \in BOOLEAN : ac' = Coolix_setPower(ac, on)
    \/ \E m \in {"Fan", "?"} : Coolix_Settable /\ ac' = Coolix_setMode(ac, m)
    \/ \E t \in {67} : Coolix_Settable /\ ac' = Coolix_setTemp(ac, t)
    \/ \E f \in {"Min"} : Coolix_Settable /\ ac' = Coolix_setFan(ac, f)
    \/ \E on \in BOOLEAN : Coolix_Settable /\ ac' = Coolix_setZoneFollow(ac, on)
    \/ Coolix_Settable /\ ac' = Coolix_setSensorTemp(ac, 20)
    \/ Coolix_Settable /\ ac' = Coolix_clearSensorTemp(ac)
    \/ \E c \in {"Swing", "SwingV"} : ac' = Coolix_setCommand(ac, c)
    \/ ac' = Coolix_send(ac)

Coolix_TypeOK == ac \in Coolix_Object

(* Commands, one or two of them, leave the settings as they were.          *)
(* The mode that was set last is the one that is told, unless it is Dry    *)
(* with a temperature in Fahrenheit, whose tables use Fan's code (67, 83). *)
Coolix_Rules ==
    Coolix_Settable =>
      /\ \A c, d \in Coolix_Commands \ {"Off"} :
           Coolix_send(Coolix_setCommand(Coolix_setCommand(ac, c), d)).set = ac.set
      /\ \A m \in Coolix_Modes \cup {"Fan"} :
           m # "Dry" \/ ac.range = "Celsius" => Coolix_getMode(Coolix_setMode(ac, m)) = m

(* Settings that were read are sent as they were read, but for those of    *)
(* Fan, which has no temperature, and for the zone: to follow one has a fan*)
(* speed of its own, and a sensor's temperature starts it.                 *)
Coolix_Rereads ==
    Coolix_Settable =>
      SameState(Coolix_toCommon(ac), Coolix_toCommon(Coolix_coolix(Coolix_toCommon(ac))),
                (IF Coolix_getMode(ac) = "Fan" THEN {"degrees"} ELSE {})
                \cup (IF ac.set.ZoneFollow THEN {"fan"} ELSE {}))

(* Switched off and on again, with or without a message in between, the    *)
(* remote says what it said before.                                        *)
Coolix_PowerCycles ==
    ac.power /\ Coolix_Settable =>
      /\ Coolix_setPower(Coolix_setPower(ac, FALSE), TRUE).set = ac.set
      /\ Coolix_setPower(Coolix_send(Coolix_setPower(ac, FALSE)), TRUE).set = ac.set

-----------------------------------------------------------------------------
(***************************************************************************)
(* ir_Corona.h, ir_Corona.cpp, class IRCoronaAc: a message of settings and *)
(* one for each of two timers, of which one excludes the other.            *)
(***************************************************************************)
Corona_Modes == {"Heat", "Dry", "Cool", "Fan"}
Corona_FanHigh == 3
Corona_TimerMax == 720
Corona_TimerOff == 65535
Corona_UnitsPerMin == 30

(* A timer's section counts in units of two seconds. *)
Corona_Object == [Power : BOOLEAN, PowerButton : BOOLEAN, Mode : Corona_Modes, Temp : 0..15,
                  Fan : 0..Corona_FanHigh, Econo : BOOLEAN, SwingVToggle : BOOLEAN,
                  On : 0..65535, Off : 0..65535]

Corona_setTemp(a, temp) == [a EXCEPT !.Temp = Clamp(temp, 17, 30) - 17 + 1]
Corona_setMode(a, mode) == [a EXCEPT !.Mode = IF mode \in Corona_Modes THEN mode ELSE "Cool"]
Corona_setFan(a, speed) == [a EXCEPT !.Fan = IF speed > Corona_FanHigh THEN 0 ELSE speed]
Corona_setEcono(a, on) == [a EXCEPT !.Econo = on]
Corona_setSwingVToggle(a, on) == [a EXCEPT !.SwingVToggle = on]
Corona_setPowerButton(a, on) == [a EXCEPT !.PowerButton = on]

(* A timer that runs is set with the unit on and its button not pressed. *)
Corona__setTimer(a, section, mins) ==
    IF mins \in 1..Corona_TimerMax
      THEN [a EXCEPT ![section] = mins * Corona_UnitsPerMin, !.Power = TRUE,
                     !.PowerButton = FALSE]
      ELSE [a EXCEPT ![section] = Corona_TimerOff]

Corona__getTimer(a, section) ==
    IF a[section] = Corona_TimerOff THEN 0 ELSE a[section] \div Corona_UnitsPerMin

Corona_setOnTimer(a, mins) ==
    LET b == Corona__setTimer(a, "On", mins) IN
    IF Corona__getTimer(b, "On") # 0 THEN Corona__setTimer(b, "Off", Corona_TimerOff) ELSE b

Corona_setOffTimer(a, mins) ==
    LET b == Corona__setTimer(a, "Off", mins) IN
    IF Corona__getTimer(b, "Off") # 0 THEN Corona__setTimer(b, "On", Corona_TimerOff) ELSE b

Corona_setPower(a, on) ==
    LET b == [a EXCEPT !.Power = on] IN
    IF on THEN Corona_setOnTimer(b, Corona_TimerOff) ELSE Corona_setOffTimer(b, Corona_TimerOff)

Corona_stateReset == [Power |-> FALSE, PowerButton |-> TRUE, Mode |-> "Cool",
                      Temp |-> 1, Fan |-> 0, Econo |-> FALSE, SwingVToggle |-> FALSE,
                      On |-> Corona_TimerOff, Off |-> Corona_TimerOff]

Corona_convertMode(mode) == IF mode \in {"Fan", "Dry", "Heat"} THEN mode ELSE "Cool"
Corona_toCommonMode(mode) == mode

Corona_convertFan(speed) ==
    CASE speed \in {"Min", "Low"} -> 1 [] speed = "Medium" -> 2
      [] speed \in {"High", "Max"} -> 3 [] OTHER -> 0

Corona_toCommonFanSpeed(speed) ==
    CASE speed = 3 -> "High" [] speed = 2 -> "Medium" [] speed = 1 -> "Low"
      [] OTHER -> "Auto"

Corona_toCommon(a) ==
    [power |-> a.Power, mode |-> Corona_toCommonMode(a.Mode),
     degrees |-> a.Temp - 1 + 17, fan |-> Corona_toCommonFanSpeed(a.Fan),
     swingv |-> OnOff(a.SwingVToggle), econo |-> a.Econo]

Corona_corona(w) ==
    LET moded == Corona_setMode(Corona_setPower(Corona_stateReset, w.power),
                                Corona_convertMode(w.mode)) IN
    Corona_setEcono(Corona_setSwingVToggle(Corona_setFan(Corona_setTemp(moded, w.degrees),
                                                         Corona_convertFan(w.fan)), w.swingv # "Off"),
                    w.econo)

Corona_Wishes == [power : BOOLEAN, mode : opmode_t, degrees : Around(17, 30),
                  fan : fanspeed_t, swingv : {"Off", "Low"}, econo : {FALSE}]

Corona_Init == ac \in {Corona_stateReset} \cup {Corona_corona(w) : w \in Corona_Wishes}

Corona_Next ==
    \/ \E on \in BOOLEAN : ac' = Corona_setPower(ac, on)
    \/ ac' = Corona_setPowerButton(ac, FALSE)
    \/ ac' = Corona_setMode(ac, "?") \/ ac' = Corona_setTemp(ac, 31) \/ ac' = Corona_setFan(ac, 4)
    \/ ac' = Corona_setEcono(ac, TRUE) \/ ac' = Corona_setSwingVToggle(ac, FALSE)
    \/ \E mins \in {0, 1, 720, 721} : \/ ac' = Corona_setOnTimer(ac, mins)
                                      \/ ac' = Corona_setOffTimer(ac, mins)

Corona_TypeOK == ac \in Corona_Object

(* One timer at most, none to switch off a unit that is off, and none in a *)
(* message that is a press of the power button; a timer is read back.      *)
Corona_Rules ==
    /\ ac.On = Corona_TimerOff \/ ac.Off = Corona_TimerOff
    /\ ac.Off # Corona_TimerOff => ac.Power
    /\ ac.PowerButton => ac.On = Corona_TimerOff /\ ac.Off = Corona_TimerOff
    /\ \A n \in {1, 59, 719, 720} : Corona__getTimer(Corona_setOnTimer(ac, n), "On") = n

(* A state that was read is sent as it was read. *)
Corona_Rereads ==
    LET read == Corona_toCommon(ac) IN
    SameState(read, Corona_toCommon(Corona_corona(read)), {})

(* Switched off and on again the unit is as it was, but for the timers. *)
Corona_PowerCycles ==
    LET cycled == Corona_setPower(Corona_setPower(ac, FALSE), TRUE) IN
    [cycled EXCEPT !.On = ac.On, !.Off = ac.Off] = [ac EXCEPT !.Power = TRUE]

-----------------------------------------------------------------------------
(***************************************************************************)
(* ir_Delonghi.h, ir_Delonghi.cpp: outside Cool the message holds a        *)
(* special temperature, and the one asked for is kept beside it.  The      *)
(* timers, which nothing else depends on, are left out.                    *)
(***************************************************************************)
Delonghi_Modes == {"Cool", "Dry", "Fan", "Auto"}
Delonghi_Fans == {"Auto", "High", "Medium", "Low"}

Delonghi_Object == [Power : BOOLEAN, Mode : Delonghi_Modes, Temp : 0..31, Fahrenheit : BOOLEAN,
                    Fan : Delonghi_Fans, Boost : BOOLEAN, Sleep : BOOLEAN,
                    savedTemp : 18..32 \cup 64..90, savedUnits : BOOLEAN]

Delonghi_TempMin(f) == IF f THEN 64 ELSE 18
Delonghi_TempMax(f) == IF f THEN 90 ELSE 32

(* 0x5400000000000153: Cool, 18C, while the kept temperature is 23C. *)
Delonghi_stateReset == [Power |-> FALSE, Mode |-> "Cool", Temp |-> 1,
                        Fahrenheit |-> FALSE, Fan |-> "Auto", Boost |-> FALSE,
                        Sleep |-> FALSE, savedTemp |-> 23, savedUnits |-> FALSE]

Delonghi_setPower(a, on) == [a EXCEPT !.Power = on]
Delonghi_setTempUnit(a, f) == [a EXCEPT !.Fahrenheit = f]
Delonghi_setBoost(a, on) == [a EXCEPT !.Boost = on]
Delonghi_setSleep(a, on) == [a EXCEPT !.Sleep = on]

Delonghi_Forced(a, temp) == [a EXCEPT !.Temp = temp]

Delonghi_setTemp(a, degrees, f) ==
    LET temp == Clamp(degrees, Delonghi_TempMin(f), Delonghi_TempMax(f)) IN
    [a EXCEPT !.Temp = temp - Delonghi_TempMin(f) + 1, !.Fahrenheit = f,
              !.savedTemp = temp, !.savedUnits = f]

Delonghi_getTemp(a) == a.Temp + Delonghi_TempMin(a.Fahrenheit) - 1

Delonghi_setFan(a, speed) ==
    CASE a.Mode = "Fan" /\ speed = "Auto" ->
           [a EXCEPT !.Fan = IF @ = "Auto" THEN "High" ELSE @]
      [] a.Mode \in {"Auto", "Dry"} -> [a EXCEPT !.Fan = "Auto"]
      [] OTHER -> [a EXCEPT !.Fan = speed]

Delonghi_InMode(a, mode) ==
    CASE mode = "Cool" ->
           Delonghi_setTemp([a EXCEPT !.Mode = mode], a.savedTemp, a.savedUnits)
      [] mode = "Fan" -> Delonghi_Forced([a EXCEPT !.Mode = mode], 6)
      [] mode \in {"Auto", "Dry"} -> Delonghi_Forced([a EXCEPT !.Mode = mode], 0)
      [] OTHER -> Delonghi_Forced([a EXCEPT !.Mode = "Auto"], 0)

Delonghi_setMode(a, mode) == Delonghi_setFan(Delonghi_InMode(a, mode), a.Fan)

Delonghi_convertMode(mode) == IF mode \in {"Cool", "Dry", "Fan"} THEN mode ELSE "Auto"

Delonghi_convertFan(fan) ==
    CASE fan \in {"Min", "Low"} -> "Low" [] fan = "Medium" -> "Medium"
      [] fan \in {"High", "Max"} -> "High" [] OTHER -> "Auto"

Delonghi_toCommonFanSpeed(fan) ==
    CASE fan = "High" -> "Max" [] fan = "Medium" -> "Medium"
      [] fan = "Low" -> "Min" [] OTHER -> "Auto"

(* The mode of the result is left as it was made: Off. *)
Delonghi_toCommon(a) ==
    [power |-> a.Power, mode |-> "Off", celsius |-> ~a.Fahrenheit,
     degrees |-> Delonghi_getTemp(a), fan |-> Delonghi_toCommonFanSpeed(a.Fan),
     turbo |-> a.Boost, sleep |-> a.Sleep]

Delonghi_delonghiac(w) ==
    Delonghi_setSleep(Delonghi_setBoost(Delonghi_setFan(Delonghi_setTemp(Delonghi_setMode(Delonghi_setPower(Delonghi_stateReset, w.power),
                                                                                          Delonghi_convertMode(w.mode)),
                                                                         w.degrees, ~w.celsius),
                                                        Delonghi_convertFan(w.fan)),
                                        w.turbo),
                      w.sleep)

Delonghi_Wishes == [power : BOOLEAN, mode : opmode_t, celsius : {TRUE},
                    degrees : Around(18, 32), fan : fanspeed_t, turbo : BOOLEAN,
                    sleep : BOOLEAN]
     \cup [power : {TRUE}, mode : {"Cool", "Fan"}, celsius : {FALSE},
           degrees : Around(64, 90), fan : {"Low"}, turbo : {TRUE},
           sleep : {FALSE}]

Delonghi_Init == ac \in {Delonghi_stateReset} \cup {Delonghi_delonghiac(w) : w \in Delonghi_Wishes}

Delonghi_Next ==
    \/ \E on \in BOOLEAN : ac' = Delonghi_setPower(ac, on)
    \/ \E m \in Delonghi_Modes \cup {"?"} : ac' = Delonghi_setMode(ac, m)
    \/ \E f \in BOOLEAN : ac' = Delonghi_setTempUnit(ac, f)
    \/ \E t \in Around(18, 32) : ac' = Delonghi_setTemp(ac, t, FALSE)
    \/ \E t \in Around(64, 90) : ac' = Delonghi_setTemp(ac, t, TRUE)
    \/ \E f \in Delonghi_Fans : ac' = Delonghi_setFan(ac, f)
    \/ \E on \in BOOLEAN : ac' = Delonghi_setBoost(ac, on)
    \/ \E on \in BOOLEAN : ac' = Delonghi_setSleep(ac, on)

Delonghi_TypeOK == ac \in Delonghi_Object

(* "Re-force any fan speed constraints" (ir_Delonghi.cpp:308): Auto and Dry *)
(* leave the fan to the unit, Fan does not, and an excursion through them  *)
(* back to Cool finds the temperature that was asked for last.             *)
Delonghi_Rules ==
    /\ ac.Mode \in {"Auto", "Dry"} => ac.Fan = "Auto"
    /\ ac.Mode = "Fan" => ac.Fan # "Auto"
    /\ \A m \in Delonghi_Modes :
         Delonghi_getTemp(Delonghi_setMode(Delonghi_setMode(ac, m), "Cool")) = ac.savedTemp

(* A state that was read is sent as it was read; not its mode, which is    *)
(* never read, nor the fan and the temperature, which depend on it.        *)
Delonghi_Rereads == SameState(Delonghi_toCommon(ac),
                              Delonghi_toCommon(Delonghi_delonghiac(Delonghi_toCommon(ac))),
                              {"mode", "fan"} \cup {"degrees"})

-----------------------------------------------------------------------------
Init ==
    \/ remote = "Carrier64" /\ Carrier64_Init
    \/ remote = "Coolix" /\ Coolix_Init
    \/ remote = "Corona" /\ Corona_Init
    \/ remote = "Delonghi" /\ Delonghi_Init

Next ==
    /\ UNCHANGED remote
    /\ \/ remote = "Carrier64" /\ Carrier64_Next
       \/ remote = "Coolix" /\ Coolix_Next
       \/ remote = "Corona" /\ Corona_Next
       \/ remote = "Delonghi" /\ Delonghi_Next

Spec == Init /\ [][Next]_<<remote, ac>>

(* The object stays one that its message can carry. *)
TypeOK ==
    CASE remote = "Carrier64" -> Carrier64_TypeOK
      [] remote = "Coolix" -> Coolix_TypeOK
      [] remote = "Corona" -> Corona_TypeOK
      [] remote = "Delonghi" -> Delonghi_TypeOK
      [] OTHER -> TRUE

(* What a class says of its settings together, see there. *)
Rules ==
    CASE remote = "Carrier64" -> Carrier64_Rules
      [] remote = "Coolix" -> Coolix_Rules
      [] remote = "Corona" -> Corona_Rules
      [] remote = "Delonghi" -> Delonghi_Rules
      [] OTHER -> TRUE

(* A state that was read from a message is sent as it was read, see there. *)
Rereads ==
    CASE remote = "Carrier64" -> Carrier64_Rereads
      [] remote = "Coolix" -> Coolix_Rereads
      [] remote = "Corona" -> Corona_Rereads
      [] remote = "Delonghi" -> Delonghi_Rereads
      [] OTHER -> TRUE

(* Off and on again is on as before, see there. *)
PowerCycles ==
    CASE remote = "Coolix" -> Coolix_PowerCycles
      [] remote = "Corona" -> Corona_PowerCycles
      [] OTHER -> TRUE
=============================================================================
