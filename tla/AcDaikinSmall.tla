---------------------------- MODULE AcDaikinSmall -----------------------------
(***************************************************************************)
(* Daikin's remotes with messages of 64 to 176 bits: one object of one of  *)
(* the classes, `Daikin64', `Daikin128', `Daikin152', `Daikin160',         *)
(* `Daikin176'. What belongs to a class has its name in front, as in       *)
(* Daikin64_Next; after it come the names of the source.                   *)
(***************************************************************************)
EXTENDS StdAc

VARIABLES
    remote,    \* the class
    ac         \* its object

-----------------------------------------------------------------------------
(***************************************************************************)
(* ir_Daikin.h, ir_Daikin.cpp, class IRDaikin64: power is a toggle, a new  *)
(* object's already pressed; quiet and turbo are speeds of the fan.        *)
(***************************************************************************)
Daikin64_Modes == {"Dry", "Cool", "Fan", "Heat"}
Daikin64_Speeds == {"Auto", "Low", "Med", "High", "Quiet", "Turbo"}
Daikin64_MinTemp == 16
Daikin64_MaxTemp == 30
Daikin64_Day == 24 * 60

(* A clock in minutes; a timer in hours and half hours. *)
Daikin64_Object == [Power : BOOLEAN, Mode : Daikin64_Modes, Fan : Daikin64_Speeds,
                    Temp : Daikin64_MinTemp..Daikin64_MaxTemp, SwingV : BOOLEAN, Sleep : BOOLEAN,
                    Clock : 0..Daikin64_Day - 1, OnTimer : BOOLEAN, OffTimer : BOOLEAN,
                    OnTime : {30 * h : h \in 0..47}, OffTime : {30 * h : h \in 0..47}]

Daikin64_stateReset == [Power |-> TRUE, Mode |-> "Cool", Fan |-> "Med", Temp |-> 16,
                        SwingV |-> FALSE, Sleep |-> FALSE, Clock |-> 7 * 60 + 20,
                        OnTimer |-> FALSE, OffTimer |-> FALSE,
                        OnTime |-> 16 * 60, OffTime |-> 16 * 60]

Daikin64_setPowerToggle(a, on) == [a EXCEPT !.Power = on]
Daikin64_setTemp(a, temp) == [a EXCEPT !.Temp = Clamp(temp, Daikin64_MinTemp, Daikin64_MaxTemp)]
Daikin64_setMode(a, mode) == [a EXCEPT !.Mode = IF mode \in Daikin64_Modes THEN mode ELSE "Cool"]
Daikin64_setFan(a, speed) == [a EXCEPT !.Fan = IF speed \in Daikin64_Speeds THEN speed ELSE "Auto"]

Daikin64_setTurbo(a, on) ==
    CASE on -> Daikin64_setFan(a, "Turbo")
      [] ~on /\ a.Fan = "Turbo" -> Daikin64_setFan(a, "Auto")
      [] OTHER -> a
Daikin64_getTurbo(a) == a.Fan = "Turbo"

(* A mutant of setQuiet: the end of quiet also ends turbo. *)
Daikin64_setQuiet_Always(a, on) == Daikin64_setFan(a, IF on THEN "Quiet" ELSE "Auto")

Daikin64_setQuiet(a, on) ==
    CASE on -> Daikin64_setFan(a, "Quiet")
      [] ~on /\ a.Fan = "Quiet" -> Daikin64_setFan(a, "Auto")
      [] OTHER -> a
Daikin64_getQuiet(a) == a.Fan = "Quiet"

Daikin64_setSwingVertical(a, on) == [a EXCEPT !.SwingV = on]
Daikin64_setSleep(a, on) == [a EXCEPT !.Sleep = on]

Daikin64_InDay(mins) == IF mins >= Daikin64_Day THEN 0 ELSE mins
Daikin64_HalfHour(mins) == Daikin64_InDay(mins) - (Daikin64_InDay(mins) % 30)
Daikin64_setClock(a, mins) == [a EXCEPT !.Clock = Daikin64_InDay(mins)]
Daikin64_setOnTimeEnabled(a, on) == [a EXCEPT !.OnTimer = on]
Daikin64_setOnTime(a, mins) == [a EXCEPT !.OnTime = Daikin64_HalfHour(mins)]
Daikin64_setOffTimeEnabled(a, on) == [a EXCEPT !.OffTimer = on]
Daikin64_setOffTime(a, mins) == [a EXCEPT !.OffTime = Daikin64_HalfHour(mins)]

Daikin64_convertMode(mode) == IF mode \in Daikin64_Modes THEN mode ELSE "Cool"
Daikin64_convertFan(speed) ==
    CASE speed = "Min" -> "Quiet" [] speed = "Low" -> "Low"
      [] speed = "Medium" -> "Med" [] speed = "High" -> "High"
      [] speed = "Max" -> "Turbo" [] OTHER -> "Auto"
(* The quiet it compares with is that of another class. *)
Daikin64_toCommonFanSpeed(speed) ==
    CASE speed = "Turbo" -> "Max" [] speed = "High" -> "High"
      [] speed = "Med" -> "Medium" [] speed = "Low" -> "Low"
      [] OTHER -> "Auto"

(* Read after the state before: power is toggled. *)
Daikin64_toCommon(a, before) ==
    [power |-> before.power # a.Power, mode |-> a.Mode, degrees |-> a.Temp,
     fan |-> Daikin64_toCommonFanSpeed(a.Fan), swingv |-> OnOff(a.SwingV),
     turbo |-> Daikin64_getTurbo(a), quiet |-> Daikin64_getQuiet(a), sleep |-> a.Sleep,
     clock |-> a.Clock]

Daikin64_daikin64(w) ==
    LET moded == Daikin64_setMode(Daikin64_setPowerToggle(Daikin64_stateReset, w.power),
                                  Daikin64_convertMode(w.mode))
        fanned == Daikin64_setFan(Daikin64_setTemp(moded, w.degrees),
                                  Daikin64_convertFan(w.fan))
        turboed == Daikin64_setTurbo(Daikin64_setSwingVertical(fanned, w.swingv # "Off"),
                                     w.turbo)
        slept == Daikin64_setSleep(Daikin64_setQuiet(turboed, w.quiet), w.sleep)
    IN IF w.clock >= 0 THEN Daikin64_setClock(slept, w.clock) ELSE slept

Daikin64_Wishes == [power : BOOLEAN, mode : opmode_t, degrees : {15, 22, 31},
                    fan : fanspeed_t, swingv : {"Off"}, quiet : BOOLEAN,
                    turbo : BOOLEAN, sleep : {FALSE}, clock : {-1, Daikin64_Day}]

Daikin64_Init == ac \in {Daikin64_stateReset} \cup {Daikin64_daikin64(w) : w \in Daikin64_Wishes}

Daikin64_Next ==
    \/ \E on \in BOOLEAN :
           \/ ac' = Daikin64_setPowerToggle(ac, on) \/ ac' = Daikin64_setQuiet(ac, on)
           \/ ac' = Daikin64_setTurbo(ac, on) \/ ac' = Daikin64_setSwingVertical(ac, on)
           \/ ac' = Daikin64_setSleep(ac, on)
           \/ ac' = Daikin64_setOnTimeEnabled(ac, on) /\ ac.Mode = "Dry"
           \/ ac' = Daikin64_setOffTimeEnabled(ac, on) /\ ac.Mode = "Dry"
    \/ ac' = Daikin64_setTemp(ac, 22)
    \/ ac' = Daikin64_setFan(ac, "?")
    \/ \E m \in {"Dry", "?"} : ac' = Daikin64_setMode(ac, m)
    \/ /\ ac.Mode = "Dry" /\ ac.Sleep /\ ac.SwingV
       /\ ac' = Daikin64_setOnTime(ac, Daikin64_Day - 1) \/ ac' = Daikin64_setOffTime(ac, Daikin64_Day)
    \/ ac' = Daikin64_setClock(ac, Daikin64_Day - 1)

Daikin64_Off == [power |-> FALSE]

Daikin64_TypeOK == ac \in Daikin64_Object

(* Neither quiet nor turbo once it was taken back, and the other one is    *)
(* left alone; through IRac the slowest and the fastest fan are sent as    *)
(* the automatic one unless they are asked for as quiet and turbo.         *)
Daikin64_Rules ==
    /\ Daikin64_setTurbo(Daikin64_setQuiet(ac, TRUE), FALSE) = Daikin64_setQuiet(ac, TRUE)
    /\ Daikin64_setQuiet(Daikin64_setTurbo(ac, TRUE), FALSE) = Daikin64_setTurbo(ac, TRUE)
    /\ \A f \in {"Min", "Max"} :
           Daikin64_daikin64([Daikin64_toCommon(ac, Daikin64_Off) EXCEPT !.fan = f,
                              !.quiet = FALSE,
                                                                         !.turbo = FALSE]).Fan = "Auto"

(* A state that was read, sent to the unit as it was before the message    *)
(* that was read, is read again as it was.                                 *)
Daikin64_Rereads ==
    LET read == Daikin64_toCommon(ac, Daikin64_Off) IN
    SameState(read, Daikin64_toCommon(Daikin64_daikin64(read), Daikin64_Off), {})

-----------------------------------------------------------------------------
(***************************************************************************)
(* ir_Daikin.h, ir_Daikin.cpp, class IRDaikin128: power and light are      *)
(* toggles, quiet and powerful are speeds of the fan, and some of both are *)
(* only for some modes.                                                    *)
(***************************************************************************)
(* Modes by number: a mode of another class is a number here as well. *)
Daikin128_Dry == 1
Daikin128_Cool == 2
Daikin128_Fan == 4
Daikin128_Heat == 8
Daikin128_Auto == 10
Daikin128_Modes == {Daikin128_Dry, Daikin128_Cool, Daikin128_Fan, Daikin128_Heat,
                    Daikin128_Auto}
Daikin128_kDaikinDry == 2
Daikin128_kDaikinFanQuiet == 11
Daikin128_FanAuto == 1
Daikin128_FanHigh == 2
Daikin128_FanPowerful == 3
Daikin128_FanMed == 4
Daikin128_FanLow == 8
Daikin128_FanQuiet == 9
Daikin128_Speeds == {Daikin128_FanAuto, Daikin128_FanHigh, Daikin128_FanPowerful,
                     Daikin128_FanMed, Daikin128_FanLow, Daikin128_FanQuiet}
Daikin128_MinTemp == 16
Daikin128_MaxTemp == 30

(* Mode, Fan and Temp are 0 in a new object.  Light is the lamp toggled. *)
Daikin128_Object == [Power : BOOLEAN, Mode : {0} \cup Daikin128_Modes,
                     Fan : {0} \cup Daikin128_Speeds,
                     Temp : {0} \cup Daikin128_MinTemp..Daikin128_MaxTemp, SwingV : BOOLEAN,
                     Sleep : BOOLEAN, Econo : BOOLEAN,
                     Light : {"", "Wall", "Ceiling"}]

Daikin128_stateReset == [Power |-> FALSE, Mode |-> 0, Fan |-> 0, Temp |-> 0,
                         SwingV |-> FALSE, Sleep |-> FALSE, Econo |-> FALSE,
                         Light |-> ""]

Daikin128_CoolOrHeat(a) == a.Mode \in {Daikin128_Cool, Daikin128_Heat}

Daikin128_setPowerToggle(a, toggle) == [a EXCEPT !.Power = toggle]
Daikin128_setTemp(a, temp) == [a EXCEPT !.Temp = Clamp(temp, Daikin128_MinTemp, Daikin128_MaxTemp)]

Daikin128_setFan(a, speed) ==
    [a EXCEPT !.Fan =
         CASE speed \in {Daikin128_FanQuiet, Daikin128_FanPowerful} /\ a.Mode = Daikin128_Auto -> Daikin128_FanAuto
           [] speed \in Daikin128_Speeds -> speed
           [] OTHER -> Daikin128_FanAuto]

Daikin128_setEcono(a, on) == [a EXCEPT !.Econo = on /\ Daikin128_CoolOrHeat(a)]

Daikin128_setMode(a, mode) ==
    LET m == [a EXCEPT !.Mode = IF mode \in Daikin128_Modes THEN mode ELSE Daikin128_Auto]
    IN Daikin128_setEcono(Daikin128_setFan(m, m.Fan), m.Econo)

Daikin128_setQuiet(a, on) ==
    CASE on /\ Daikin128_CoolOrHeat(a) -> Daikin128_setFan(a, Daikin128_FanQuiet)
      [] ~(on /\ Daikin128_CoolOrHeat(a)) /\ a.Fan = Daikin128_FanQuiet -> Daikin128_setFan(a, Daikin128_FanAuto)
      [] OTHER -> a
Daikin128_getQuiet(a) == a.Fan = Daikin128_FanQuiet

Daikin128_setPowerful(a, on) ==
    CASE on /\ Daikin128_CoolOrHeat(a) -> Daikin128_setFan(a, Daikin128_FanPowerful)
      [] ~(on /\ Daikin128_CoolOrHeat(a)) /\ a.Fan = Daikin128_FanPowerful -> Daikin128_setFan(a, Daikin128_FanAuto)
      [] OTHER -> a
Daikin128_getPowerful(a) == a.Fan = Daikin128_FanPowerful

Daikin128_setSwingVertical(a, on) == [a EXCEPT !.SwingV = on]
Daikin128_setSleep(a, on) == [a EXCEPT !.Sleep = on]
Daikin128_setLightToggle(a, unit) == [a EXCEPT !.Light = unit]

(* Dry is answered with the number that Dry has in IRDaikinESP. *)
Daikin128_convertMode(mode) ==
    CASE mode = "Cool" -> Daikin128_Cool [] mode = "Heat" -> Daikin128_Heat
      [] mode = "Dry" -> Daikin128_kDaikinDry [] mode = "Fan" -> Daikin128_Fan [] OTHER -> Daikin128_Auto
Daikin128_toCommonMode(mode) ==
    CASE mode = Daikin128_Cool -> "Cool" [] mode = Daikin128_Heat -> "Heat" [] mode = Daikin128_Dry -> "Dry"
      [] mode = Daikin128_Fan -> "Fan" [] OTHER -> "Auto"
(* So is the slowest fan, in both directions. *)
Daikin128_convertFan(speed) ==
    CASE speed = "Min" -> Daikin128_kDaikinFanQuiet [] speed = "Low" -> Daikin128_FanLow
      [] speed = "Medium" -> Daikin128_FanMed [] speed = "High" -> Daikin128_FanHigh
      [] speed = "Max" -> Daikin128_FanPowerful [] OTHER -> Daikin128_FanAuto
Daikin128_toCommonFanSpeed(speed) ==
    CASE speed = Daikin128_FanPowerful -> "Max" [] speed = Daikin128_FanHigh -> "High"
      [] speed = Daikin128_FanMed -> "Medium" [] speed = Daikin128_FanLow -> "Low"
      [] speed = Daikin128_kDaikinFanQuiet -> "Min" [] OTHER -> "Auto"

(* Read after the state before: power and light are toggled. *)
Daikin128_toCommon(a, before) ==
    [power |-> before.power # a.Power, mode |-> Daikin128_toCommonMode(a.Mode),
     degrees |-> a.Temp, fan |-> Daikin128_toCommonFanSpeed(a.Fan),
     swingv |-> OnOff(a.SwingV), quiet |-> Daikin128_getQuiet(a),
     turbo |-> Daikin128_getPowerful(a), econo |-> a.Econo,
     light |-> before.light # (a.Light # ""), sleep |-> a.Sleep]

Daikin128_daikin128(w) ==
    LET moded == Daikin128_setMode(Daikin128_setPowerToggle(Daikin128_stateReset, w.power),
                                   Daikin128_convertMode(w.mode))
        fanned == Daikin128_setFan(Daikin128_setTemp(moded, w.degrees),
                                   Daikin128_convertFan(w.fan))
        quieted == Daikin128_setQuiet(Daikin128_setSwingVertical(fanned, w.swingv # "Off"),
                                      w.quiet)
        lit == Daikin128_setLightToggle(quieted, IF w.light THEN "Wall" ELSE "")
    IN Daikin128_setSleep(Daikin128_setEcono(Daikin128_setPowerful(lit, w.turbo), w.econo),
                          w.sleep)

Daikin128_Wishes == [power : BOOLEAN, mode : opmode_t, degrees : {15, 22, 31},
                     fan : fanspeed_t, swingv : {"Off"}, quiet : BOOLEAN,
                     turbo : BOOLEAN, light : BOOLEAN, econo : BOOLEAN, sleep : {FALSE}]

Daikin128_Init == ac \in {Daikin128_stateReset} \cup {Daikin128_daikin128(w) : w \in Daikin128_Wishes}

Daikin128_Next ==
    \/ \E on \in BOOLEAN :
           \/ ac' = Daikin128_setPowerToggle(ac, on) \/ ac' = Daikin128_setQuiet(ac, on)
           \/ ac' = Daikin128_setPowerful(ac, on) \/ ac' = Daikin128_setEcono(ac, on)
           \/ ac.Light = "Ceiling" /\ ac' = Daikin128_setSleep(ac, on)
           \/ ac.Light = "Ceiling" /\ ac' = Daikin128_setSwingVertical(ac, on)
    \/ \E t \in {15, 22} : ac' = Daikin128_setTemp(ac, t)
    \/ \E s \in {Daikin128_FanQuiet, Daikin128_FanPowerful, 0} : ac' = Daikin128_setFan(ac, s)
    \/ \E m \in {Daikin128_Dry, Daikin128_Cool, 3} : ac' = Daikin128_setMode(ac, m)
    \/ ac' = Daikin128_setLightToggle(ac, "Ceiling")

Daikin128_Off == [power |-> FALSE, light |-> FALSE]

Daikin128_TypeOK == ac \in Daikin128_Object

(* Economy is only for Cool and Heat, and Auto has an automatic fan where  *)
(* quiet and powerful would be; through IRac the fan is never quiet or     *)
(* powerful unless that was asked for by its name.                         *)
Daikin128_Rules ==
    /\ ac.Econo => Daikin128_CoolOrHeat(ac)
    /\ ac.Mode = Daikin128_Auto => ~Daikin128_getQuiet(ac) /\ ~Daikin128_getPowerful(ac)
    /\ \A m \in Daikin128_Modes, s \in Daikin128_Speeds :
           LET b == Daikin128_setMode(Daikin128_setFan(ac, s), m) IN
           m = Daikin128_Auto => b.Fan \notin {Daikin128_FanQuiet, Daikin128_FanPowerful}
    /\ LET w == Daikin128_toCommon(ac, Daikin128_Off)
           plain == Daikin128_daikin128([w EXCEPT !.quiet = FALSE, !.turbo = FALSE])
       IN ~Daikin128_getQuiet(plain) /\ ~Daikin128_getPowerful(plain)

(* A state that was read, sent to the unit as it was before the message    *)
(* that was read, is read again as it was, but for Dry, which is sent as   *)
(* Cool, for a new object, and for quiet or powerful and the fan that goes *)
(* with it in a mode their setters refuse.                                 *)
Daikin128_Rereads ==
    LET read == Daikin128_toCommon(ac, Daikin128_Off) again == Daikin128_toCommon(Daikin128_daikin128(read), Daikin128_Off) IN
    SameState(read, again,
              (IF ac.Mode = Daikin128_Dry THEN {"mode"} ELSE {})
              \cup (IF ac.Temp = 0 THEN {"degrees"} ELSE {})
              \cup (IF Daikin128_CoolOrHeat(ac) THEN {} ELSE {"fan", "quiet", "turbo"}))

-----------------------------------------------------------------------------
(***************************************************************************)
(* ir_Daikin.h, ir_Daikin.cpp, class IRDaikin152: comfort, economy, quiet  *)
(* and powerful, and a temperature that marks the Fan mode.                *)
(***************************************************************************)
Daikin152_Modes == {"Auto", "Dry", "Cool", "Heat", "Fan"}
Daikin152_MinTemp == 10
Daikin152_MinCoolTemp == 18
Daikin152_MaxTemp == 32
Daikin152_DryTemp == Daikin152_MinCoolTemp
Daikin152_FanTemp == 96
Daikin152_FanMin == 1
Daikin152_FanMed == 3
Daikin152_FanMax == 5
Daikin152_FanAuto == 10
Daikin152_FanQuiet == 11

(* Temp and Fan are 0 in a new object. *)
Daikin152_Object == [Power : BOOLEAN, Mode : Daikin152_Modes,
                     Temp : {0, Daikin152_FanTemp} \cup Daikin152_MinTemp..Daikin152_MaxTemp,
                     Fan : {0} \cup 3..7 \cup {Daikin152_FanAuto,
                                               Daikin152_FanQuiet}, SwingV : BOOLEAN,
                     Powerful : BOOLEAN, Quiet : BOOLEAN, Econo : BOOLEAN,
                     Comfort : BOOLEAN]

Daikin152_stateReset == [Power |-> FALSE, Mode |-> "Auto", Temp |-> 0, Fan |-> 0,
                         SwingV |-> FALSE, Powerful |-> FALSE, Quiet |-> FALSE,
                         Econo |-> FALSE, Comfort |-> FALSE]

Daikin152_setPower(a, on) == [a EXCEPT !.Power = on]

Daikin152_setTemp(a, temp) ==
    [a EXCEPT !.Temp = IF temp = Daikin152_FanTemp THEN Daikin152_FanTemp
                       ELSE Clamp(temp, IF a.Mode = "Heat" THEN Daikin152_MinTemp
                                        ELSE Daikin152_MinCoolTemp, Daikin152_MaxTemp)]

(* The special temperatures are set in the mode before. *)
Daikin152_setMode(a, mode) ==
    [CASE mode = "Fan" -> Daikin152_setTemp(a, Daikin152_FanTemp)
       [] mode = "Dry" -> Daikin152_setTemp(a, Daikin152_DryTemp)
       [] OTHER -> a
     EXCEPT !.Mode = IF mode \in Daikin152_Modes THEN mode ELSE "Auto"]

Daikin152_setFan(a, fan) ==
    [a EXCEPT !.Fan = CASE fan \in {Daikin152_FanQuiet, Daikin152_FanAuto} -> fan
                        [] fan \in Daikin152_FanMin..Daikin152_FanMax -> 2 + fan
                        [] OTHER -> Daikin152_FanAuto]
Daikin152_getFan(a) ==
    IF a.Fan \in {Daikin152_FanQuiet, Daikin152_FanAuto} THEN a.Fan ELSE (a.Fan - 2) % 256
Daikin152_setSwingV(a, on) == [a EXCEPT !.SwingV = on]

Daikin152_setQuiet(a, on) == [a EXCEPT !.Quiet = on, !.Powerful = @ /\ ~on]
Daikin152_setEcono(a, on) == [a EXCEPT !.Econo = on, !.Powerful = @ /\ ~on]

Daikin152_setComfort(a, on) ==
    IF on THEN Daikin152_setSwingV(Daikin152_setFan([a EXCEPT !.Comfort = TRUE,
                                                              !.Powerful = FALSE], Daikin152_FanAuto), FALSE)
          ELSE [a EXCEPT !.Comfort = FALSE]

Daikin152_setPowerful(a, on) ==
    IF on THEN Daikin152_setEcono(Daikin152_setComfort(Daikin152_setQuiet([a EXCEPT !.Powerful = TRUE],
                                                                          FALSE), FALSE), FALSE)
          ELSE [a EXCEPT !.Powerful = FALSE]

Daikin152_convertMode(mode) == IF mode \in Daikin152_Modes THEN mode ELSE "Auto"
Daikin152_convertFan(speed) ==
    CASE speed = "Min" -> Daikin152_FanQuiet [] speed = "Low" -> Daikin152_FanMin
      [] speed = "Medium" -> Daikin152_FanMed [] speed = "High" -> Daikin152_FanMax - 1
      [] speed = "Max" -> Daikin152_FanMax [] OTHER -> Daikin152_FanAuto
Daikin152_toCommonFanSpeed(speed) ==
    CASE speed = Daikin152_FanMax -> "Max" [] speed = Daikin152_FanMax - 1 -> "High"
      [] speed \in {Daikin152_FanMed,
                    Daikin152_FanMin + 1} -> "Medium" [] speed = Daikin152_FanMin -> "Low"
      [] speed = Daikin152_FanQuiet -> "Min" [] OTHER -> "Auto"

Daikin152_toCommon(a) ==
    [power |-> a.Power, mode |-> a.Mode, degrees |-> a.Temp,
     fan |-> Daikin152_toCommonFanSpeed(Daikin152_getFan(a)), swingv |-> OnOff(a.SwingV),
     quiet |-> a.Quiet, turbo |-> a.Powerful, econo |-> a.Econo]

Daikin152_daikin152(w) ==
    LET moded == Daikin152_setMode(Daikin152_setPower(Daikin152_stateReset, w.power),
                                   Daikin152_convertMode(w.mode))
        fanned == Daikin152_setFan(Daikin152_setTemp(moded, w.degrees),
                                   Daikin152_convertFan(w.fan))
        swung == Daikin152_setSwingV(fanned, w.swingv # "Off")
    IN Daikin152_setEcono(Daikin152_setPowerful(Daikin152_setQuiet(swung, w.quiet), w.turbo),
                          w.econo)

Daikin152_Wishes == [power : {TRUE}, mode : opmode_t, degrees : {9, 18, 33},
                     fan : {"Min", "Low", "Medium"}, swingv : {"Off", "Low"},
                     quiet : BOOLEAN, turbo : BOOLEAN, econo : BOOLEAN]

Daikin152_Init == ac \in {Daikin152_stateReset} \cup {Daikin152_daikin152(w) : w \in Daikin152_Wishes}

Daikin152_Next ==
    \/ \E on \in BOOLEAN :
           \/ ac' = Daikin152_setPower(ac, on) \/ ac' = Daikin152_setQuiet(ac, on)
           \/ ac' = Daikin152_setPowerful(ac, on) \/ ac' = Daikin152_setEcono(ac, on)
           \/ ac' = Daikin152_setComfort(ac, on) \/ ac' = Daikin152_setSwingV(ac, on)
    \/ \E t \in {9, 21} : ac' = Daikin152_setTemp(ac, t)
    \/ ac' = Daikin152_setFan(ac, 9)
    \/ \E m \in {"Fan", "Dry", "Heat", "?"} : ac' = Daikin152_setMode(ac, m)

Daikin152_TypeOK == ac \in Daikin152_Object

(* Powerful ends quiet, comfort and economy, and each of them ends it;     *)
(* Fan has a temperature of its own, which a later setTemp takes away and  *)
(* which a later mode but Dry keeps.                                       *)
Daikin152_Rules ==
    /\ ac.Powerful => ~ac.Quiet /\ ~ac.Econo /\ ~ac.Comfort
    /\ Daikin152_setMode(ac, "Fan").Temp = Daikin152_FanTemp
    /\ Daikin152_setMode(Daikin152_setMode(ac, "Fan"), "Cool").Temp = Daikin152_FanTemp
    /\ Daikin152_setMode(Daikin152_setMode(ac, "Fan"), "Dry").Temp = Daikin152_DryTemp
    /\ \A m \in opmode_t :
           Daikin152_daikin152([Daikin152_toCommon(ac) EXCEPT !.mode = m,
                                !.degrees = 21]).Temp = 21

(* A state that was read is sent as it was read, but for what only Heat    *)
(* allows and for a new object.                                            *)
Daikin152_Rereads ==
    LET read == Daikin152_toCommon(ac) IN
    SameState(read, Daikin152_toCommon(Daikin152_daikin152(read)),
              IF ac.Temp < (IF ac.Mode = "Heat" THEN Daikin152_MinTemp ELSE Daikin152_MinCoolTemp)
              THEN {"degrees"} ELSE {})

-----------------------------------------------------------------------------
(***************************************************************************)
(* ir_Daikin.h, ir_Daikin.cpp, class IRDaikin160: the positions of the     *)
(* vane are numbered from below, those of stdAc from above.                *)
(***************************************************************************)
Daikin160_Modes == {"Auto", "Dry", "Cool", "Heat", "Fan"}
Daikin160_MinTemp == 10
Daikin160_MaxTemp == 32
Daikin160_FanMin == 1
Daikin160_FanMed == 3
Daikin160_FanMax == 5
Daikin160_FanAuto == 10
Daikin160_FanQuiet == 11
Daikin160_SwingVLowest == 1
Daikin160_SwingVHighest == 5
Daikin160_SwingVAuto == 15

Daikin160_Object == [Power : BOOLEAN, Mode : Daikin160_Modes, Temp : 0..22,
                     Fan : 3..7 \cup {Daikin160_FanAuto, Daikin160_FanQuiet},
                     SwingV : Daikin160_SwingVLowest..Daikin160_SwingVHighest \cup {Daikin160_SwingVAuto}]

Daikin160_stateReset == [Power |-> FALSE, Mode |-> "Cool", Temp |-> 15,
                         Fan |-> Daikin160_FanAuto, SwingV |-> Daikin160_SwingVLowest]

Daikin160_setPower(a, on) == [a EXCEPT !.Power = on]
Daikin160_setMode(a, mode) == [a EXCEPT !.Mode = IF mode \in Daikin160_Modes THEN mode ELSE "Auto"]
Daikin160_setTemp(a, temp) == [a EXCEPT !.Temp = Clamp(temp, Daikin160_MinTemp, Daikin160_MaxTemp) - 10]
Daikin160_getTemp(a) == a.Temp + 10
Daikin160_setFan(a, fan) ==
    [a EXCEPT !.Fan = CASE fan \in {Daikin160_FanQuiet, Daikin160_FanAuto} -> fan
                        [] fan \in Daikin160_FanMin..Daikin160_FanMax -> 2 + fan
                        [] OTHER -> Daikin160_FanAuto]
Daikin160_getFan(a) == IF a.Fan \in {Daikin160_FanQuiet,
                                     Daikin160_FanAuto} THEN a.Fan ELSE a.Fan - 2
Daikin160_setSwingVertical(a, position) ==
    [a EXCEPT !.SwingV = IF position \in Daikin160_SwingVLowest..Daikin160_SwingVHighest
                           THEN position ELSE Daikin160_SwingVAuto]

Daikin160_convertMode(mode) == IF mode \in Daikin160_Modes THEN mode ELSE "Auto"
Daikin160_convertFan(speed) ==
    CASE speed = "Min" -> Daikin160_FanMin [] speed = "Low" -> Daikin160_FanMin + 1
      [] speed = "Medium" -> Daikin160_FanMin + 2 [] speed = "High" -> Daikin160_FanMax - 1
      [] speed = "Max" -> Daikin160_FanMax [] OTHER -> Daikin160_FanAuto

(* The number of a position in stdAc, counted from above. *)
Daikin160_SwingNumber(position) ==
    CASE position = "Highest" -> 1 [] position = "High" -> 2
      [] position = "Middle" -> 3 [] position = "Low" -> 4
      [] position = "Lowest" -> 5

Daikin160_Named == {"Highest", "High", "Middle", "Low", "Lowest"}

Daikin160_convertSwingV(position) ==
    IF position \in Daikin160_Named THEN Daikin160_SwingVHighest + 1 - Daikin160_SwingNumber(position)
    ELSE Daikin160_SwingVAuto

Daikin160_toCommonSwingV(setting) ==
    CASE setting = 5 -> "Highest" [] setting = 4 -> "High"
      [] setting = 3 -> "Middle" [] setting = 2 -> "Low"
      [] setting = 1 -> "Lowest" [] OTHER -> "Auto"
Daikin160_toCommonFanSpeed(speed) ==
    CASE speed = Daikin160_FanMax -> "Max" [] speed = Daikin160_FanMax - 1 -> "High"
      [] speed \in {Daikin160_FanMed,
                    Daikin160_FanMin + 1} -> "Medium" [] speed = Daikin160_FanMin -> "Low"
      [] speed = Daikin160_FanQuiet -> "Min" [] OTHER -> "Auto"

Daikin160_toCommon(a) ==
    [power |-> a.Power, mode |-> a.Mode, degrees |-> Daikin160_getTemp(a),
     fan |-> Daikin160_toCommonFanSpeed(Daikin160_getFan(a)), swingv |-> Daikin160_toCommonSwingV(a.SwingV)]

Daikin160_daikin160(w) ==
    LET moded == Daikin160_setMode(Daikin160_setPower(Daikin160_stateReset, w.power),
                                   Daikin160_convertMode(w.mode))
        fanned == Daikin160_setFan(Daikin160_setTemp(moded, w.degrees),
                                   Daikin160_convertFan(w.fan))
    IN Daikin160_setSwingVertical(fanned, Daikin160_convertSwingV(w.swingv))

Daikin160_Wishes == [power : BOOLEAN, mode : opmode_t, degrees : {9, 21, 33},
                     fan : fanspeed_t, swingv : swingv_t]

Daikin160_Init == ac \in {Daikin160_stateReset} \cup {Daikin160_daikin160(w) : w \in Daikin160_Wishes}

Daikin160_Next ==
    \/ \E on \in BOOLEAN : ac' = Daikin160_setPower(ac, on)
    \/ \E t \in {9, 21} : ac' = Daikin160_setTemp(ac, t)
    \/ \E s \in {Daikin160_FanQuiet, 9} : ac' = Daikin160_setFan(ac, s)
    \/ ac' = Daikin160_setMode(ac, "?")
    \/ ac' = Daikin160_setSwingVertical(ac, 0)

Daikin160_TypeOK == ac \in Daikin160_Object

(* A position stdAc names is sent as that position; a slow fan is read as  *)
(* a slower one than was asked for, the slowest of all as a slow one.      *)
Daikin160_Rules ==
    /\ \A p \in Daikin160_Named : Daikin160_toCommonSwingV(Daikin160_convertSwingV(p)) = p
    /\ \A f \in fanspeed_t :
           Daikin160_toCommonFanSpeed(Daikin160_convertFan(f)) =
               CASE f = "Min" -> "Low" [] f = "Low" -> "Medium"
                 [] f = "MediumHigh" -> "Auto" [] OTHER -> f

(* A state that was read is sent as it was read, but for the fan: each     *)
(* time it is passed on it is read as a faster one, up to the middle.      *)
Daikin160_Rereads ==
    LET read == Daikin160_toCommon(ac) again == Daikin160_toCommon(Daikin160_daikin160(read)) IN
    /\ SameState(read, again, {"fan"})
    /\ again.fan = CASE read.fan = "Min" -> "Low" [] read.fan = "Low" -> "Medium"
                     [] OTHER -> read.fan

-----------------------------------------------------------------------------
(***************************************************************************)
(* ir_Daikin.h, ir_Daikin.cpp, class IRDaikin176: a second copy of the     *)
(* mode and the mark of a pressed mode button go with every message; Dry   *)
(* and Fan send a temperature of their own and keep the one set.           *)
(***************************************************************************)
Daikin176_Modes == {"Fan", "Heat", "Cool", "Auto", "Dry"}
Daikin176_MinTemp == 10
Daikin176_MaxTemp == 32
Daikin176_DryFanTemp == 17
Daikin176_FanMin == 1
Daikin176_FanMax == 3

(* A new object tells 9 degrees, below the least there is. *)
Daikin176_Object == [Power : BOOLEAN, Mode : Daikin176_Modes, AltMode : {2, 6, 7},
                     ModeButton : BOOLEAN, Temp : 0..23, SwingH : BOOLEAN,
                     Fan : {Daikin176_FanMin,
                            Daikin176_FanMax}, _saved_temp : {9} \cup Daikin176_MinTemp..Daikin176_MaxTemp]

Daikin176_stateReset == [Power |-> FALSE, Mode |-> "Cool", AltMode |-> 7,
                         ModeButton |-> FALSE, Temp |-> 0, SwingH |-> FALSE,
                         Fan |-> Daikin176_FanMin, _saved_temp |-> 9]

Daikin176_getTemp(a) == a.Temp + 9
Daikin176_setPower(a, on) == [a EXCEPT !.Power = on, !.ModeButton = FALSE]

Daikin176_setTemp(a, temp) ==
    LET t == Clamp(temp, Daikin176_MinTemp, Daikin176_MaxTemp) IN
    [a EXCEPT !._saved_temp = t, !.ModeButton = FALSE,
              !.Temp = IF a.Mode \in {"Dry", "Fan"} THEN Daikin176_DryFanTemp - 9
                       ELSE t - 9]

Daikin176_AltOf(mode) == CASE mode = "Dry" -> 2 [] mode = "Fan" -> 6 [] OTHER -> 7

Daikin176_setMode(a, mode) ==
    LET m == IF mode \in Daikin176_Modes THEN mode ELSE "Cool" IN
    [Daikin176_setTemp([a EXCEPT !.Mode = m, !.AltMode = Daikin176_AltOf(m)], a._saved_temp)
         EXCEPT !.ModeButton = TRUE]

Daikin176_setFan(a, fan) ==
    [a EXCEPT !.Fan = IF fan = Daikin176_FanMin THEN Daikin176_FanMin ELSE Daikin176_FanMax,
              !.ModeButton = FALSE]
Daikin176_setSwingHorizontal(a, auto) == [a EXCEPT !.SwingH = auto]

Daikin176_convertMode(mode) == IF mode \in Daikin176_Modes THEN mode ELSE "Cool"
Daikin176_convertFan(speed) == IF speed \in {"Min", "Low"} THEN Daikin176_FanMin ELSE Daikin176_FanMax
Daikin176_convertSwingH(position) == position # "Off"
Daikin176_toCommonFanSpeed(speed) == IF speed = Daikin176_FanMin THEN "Min" ELSE "Max"

Daikin176_toCommon(a) ==
    [power |-> a.Power, mode |-> a.Mode, degrees |-> Daikin176_getTemp(a),
     fan |-> Daikin176_toCommonFanSpeed(a.Fan), swingh |-> OnOff(a.SwingH)]

Daikin176_daikin176(w) ==
    LET moded == Daikin176_setMode(Daikin176_setPower(Daikin176_stateReset, w.power),
                                   Daikin176_convertMode(w.mode))
    IN Daikin176_setSwingHorizontal(Daikin176_setFan(Daikin176_setTemp(moded, w.degrees),
                                                     Daikin176_convertFan(w.fan)),
                                    Daikin176_convertSwingH(w.swingh))

Daikin176_Wishes == [power : BOOLEAN, mode : opmode_t, degrees : {9, 21, 33},
                     fan : fanspeed_t, swingh : {"Off", "Left"}]

Daikin176_Init == ac \in {Daikin176_stateReset} \cup {Daikin176_daikin176(w) : w \in Daikin176_Wishes}

Daikin176_Next ==
    \/ \E on \in BOOLEAN : ac' = Daikin176_setPower(ac, on) \/ ac' = Daikin176_setSwingHorizontal(ac, on)
    \/ \E t \in {9, 21} : ac' = Daikin176_setTemp(ac, t)
    \/ \E s \in {Daikin176_FanMin, 2} : ac' = Daikin176_setFan(ac, s)
    \/ \E m \in Daikin176_Modes \cup {"?"} : ac' = Daikin176_setMode(ac, m)

Daikin176_TypeOK == ac \in Daikin176_Object

(* Whatever modes lie between, the temperature set is the one that is told *)
(* in a mode that has one; both copies of the mode agree; the mode button  *)
(* is only told as pressed by a message that changed nothing after it, and *)
(* so never by IRac.                                                       *)
Daikin176_Rules ==
    /\ Daikin176_getTemp(ac) = IF ac.Mode \in {"Dry", "Fan"} THEN Daikin176_DryFanTemp
                               ELSE ac._saved_temp
    /\ ac.AltMode = Daikin176_AltOf(ac.Mode)
    /\ \A m \in Daikin176_Modes : Daikin176_getTemp(Daikin176_setMode(Daikin176_setMode(ac, m),
                                                                      "Heat")) =
                                      AtLeast(ac._saved_temp, Daikin176_MinTemp)
    /\ \A m \in opmode_t :
           ~Daikin176_daikin176([Daikin176_toCommon(ac) EXCEPT !.mode = m]).ModeButton

(* A state that was read is sent as it was read, but for the temperature   *)
(* of a new object.                                                        *)
Daikin176_Rereads ==
    LET read == Daikin176_toCommon(ac) IN
    SameState(read, Daikin176_toCommon(Daikin176_daikin176(read)),
              IF ac._saved_temp < Daikin176_MinTemp THEN {"degrees"} ELSE {})

-----------------------------------------------------------------------------
Init ==
    \/ remote = "Daikin64" /\ Daikin64_Init
    \/ remote = "Daikin128" /\ Daikin128_Init
    \/ remote = "Daikin152" /\ Daikin152_Init
    \/ remote = "Daikin160" /\ Daikin160_Init
    \/ remote = "Daikin176" /\ Daikin176_Init

Next ==
    /\ UNCHANGED remote
    /\ \/ remote = "Daikin64" /\ Daikin64_Next
       \/ remote = "Daikin128" /\ Daikin128_Next
       \/ remote = "Daikin152" /\ Daikin152_Next
       \/ remote = "Daikin160" /\ Daikin160_Next
       \/ remote = "Daikin176" /\ Daikin176_Next

Spec == Init /\ [][Next]_<<remote, ac>>

(* The object stays one that its message can carry. *)
TypeOK ==
    CASE remote = "Daikin64" -> Daikin64_TypeOK
      [] remote = "Daikin128" -> Daikin128_TypeOK
      [] remote = "Daikin152" -> Daikin152_TypeOK
      [] remote = "Daikin160" -> Daikin160_TypeOK
      [] remote = "Daikin176" -> Daikin176_TypeOK
      [] OTHER -> TRUE

(* What a class says of its settings together, see there. *)
Rules ==
    CASE remote = "Daikin64" -> Daikin64_Rules
      [] remote = "Daikin128" -> Daikin128_Rules
      [] remote = "Daikin152" -> Daikin152_Rules
      [] remote = "Daikin160" -> Daikin160_Rules
      [] remote = "Daikin176" -> Daikin176_Rules
      [] OTHER -> TRUE

(* A state that was read from a message is sent as it was read, see there. *)
Rereads ==
    CASE remote = "Daikin64" -> Daikin64_Rereads
      [] remote = "Daikin128" -> Daikin128_Rereads
      [] remote = "Daikin152" -> Daikin152_Rereads
      [] remote = "Daikin160" -> Daikin160_Rereads
      [] remote = "Daikin176" -> Daikin176_Rereads
      [] OTHER -> TRUE
=============================================================================
