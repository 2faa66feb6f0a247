------------------------------- MODULE AcDaikin -------------------------------
(***************************************************************************)
(* Daikin's remotes with messages of 216 to 312 bits: one object of one of *)
(* the classes, `Daikin', `Daikin2', `Daikin216', `Daikin312'. What belongs*)
(* to a class has its name in front, as in Daikin_Next; after it come the  *)
(* names of the source.                                                    *)
(***************************************************************************)
EXTENDS StdAc

VARIABLES
    remote,    \* the class
    ac         \* its object

-----------------------------------------------------------------------------
(***************************************************************************)
(* ir_Daikin.h, ir_Daikin.cpp, class IRDaikinESP: powerful, quiet and      *)
(* economy end one another.  Temperatures are in half degrees.             *)
(***************************************************************************)
Daikin_Modes == {"Auto", "Dry", "Cool", "Heat", "Fan"}
Daikin_MinTemp == 20
Daikin_MaxTemp == 64
Daikin_FanMin == 1
Daikin_FanMed == 3
Daikin_FanMax == 5
Daikin_FanAuto == 10
Daikin_FanQuiet == 11
Daikin_UnusedTime == 1536

Daikin_Object == [Power : BOOLEAN, Mode : Daikin_Modes, Temp : Daikin_MinTemp..Daikin_MaxTemp,
                  Fan : 3..7 \cup {Daikin_FanAuto, Daikin_FanQuiet},
                  SwingV : BOOLEAN, SwingH : BOOLEAN,
                  Powerful : BOOLEAN, Quiet : BOOLEAN, Econo : BOOLEAN,
                  Mold : BOOLEAN, OnTimer : BOOLEAN, OffTimer : BOOLEAN,
                  OnTime : 0..Daikin_UnusedTime, OffTime : 0..Daikin_UnusedTime]

Daikin_stateReset ==
    [Power |-> TRUE, Mode |-> "Heat", Temp |-> 30, Fan |-> Daikin_FanQuiet,
     SwingV |-> FALSE, SwingH |-> FALSE, Powerful |-> FALSE,
     Quiet |-> FALSE, Econo |-> FALSE, Mold |-> FALSE,
     OnTimer |-> FALSE, OffTimer |-> FALSE,
     OnTime |-> Daikin_UnusedTime, OffTime |-> Daikin_UnusedTime]

Daikin_setPower(a, on) == [a EXCEPT !.Power = on]
Daikin_setTemp(a, halves) == [a EXCEPT !.Temp = Clamp(halves, Daikin_MinTemp, Daikin_MaxTemp)]
Daikin_setFan(a, fan) ==
    [a EXCEPT !.Fan = CASE fan \in {Daikin_FanQuiet, Daikin_FanAuto} -> fan
                        [] fan \in Daikin_FanMin..Daikin_FanMax -> 2 + fan
                        [] OTHER -> Daikin_FanAuto]
Daikin_getFan(a) == IF a.Fan \in {Daikin_FanQuiet, Daikin_FanAuto} THEN a.Fan ELSE a.Fan - 2
Daikin_setMode(a, mode) == [a EXCEPT !.Mode = IF mode \in Daikin_Modes THEN mode ELSE "Auto"]
Daikin_setSwingVertical(a, on) == [a EXCEPT !.SwingV = on]
Daikin_setSwingHorizontal(a, on) == [a EXCEPT !.SwingH = on]
Daikin_setMold(a, on) == [a EXCEPT !.Mold = on]

Daikin_setQuiet(a, on) == [a EXCEPT !.Quiet = on, !.Powerful = @ /\ ~on]

Daikin_setEcono(a, on) == [a EXCEPT !.Econo = on, !.Powerful = @ /\ ~on]

Daikin_setPowerful(a, on) ==
    IF on THEN Daikin_setEcono(Daikin_setQuiet([a EXCEPT !.Powerful = TRUE], FALSE), FALSE)
          ELSE [a EXCEPT !.Powerful = FALSE]

Daikin_enableOnTimer(a, starttime) ==
    [a EXCEPT !.OnTimer = TRUE, !.OnTime = starttime]
Daikin_disableOnTimer(a) == [a EXCEPT !.OnTimer = FALSE, !.OnTime = Daikin_UnusedTime]
Daikin_enableOffTimer(a, endtime) ==
    [a EXCEPT !.OffTimer = TRUE, !.OffTime = endtime]
Daikin_disableOffTimer(a) == [a EXCEPT !.OffTimer = FALSE, !.OffTime = Daikin_UnusedTime]

Daikin_convertMode(mode) == IF mode \in Daikin_Modes THEN mode ELSE "Auto"
Daikin_convertFan(speed) ==
    CASE speed = "Min" -> Daikin_FanQuiet [] speed = "Low" -> Daikin_FanMin
      [] speed = "Medium" -> Daikin_FanMed [] speed = "High" -> Daikin_FanMax - 1
      [] speed = "Max" -> Daikin_FanMax [] OTHER -> Daikin_FanAuto
Daikin_toCommonFanSpeed(speed) ==
    CASE speed = Daikin_FanMax -> "Max" [] speed = Daikin_FanMax - 1 -> "High"
      [] speed \in {Daikin_FanMed,
                    Daikin_FanMin + 1} -> "Medium" [] speed = Daikin_FanMin -> "Low"
      [] speed = Daikin_FanQuiet -> "Min" [] OTHER -> "Auto"

Daikin_toCommon(a) ==
    [power |-> a.Power, mode |-> a.Mode, degrees |-> a.Temp,
     fan |-> Daikin_toCommonFanSpeed(Daikin_getFan(a)), swingv |-> OnOff(a.SwingV),
     swingh |-> OnOff(a.SwingH), quiet |-> a.Quiet, turbo |-> a.Powerful,
     clean |-> a.Mold, econo |-> a.Econo]

Daikin_daikin(w) ==
    LET moded == Daikin_setMode(Daikin_setPower(Daikin_stateReset, w.power),
                                Daikin_convertMode(w.mode))
        fanned == Daikin_setFan(Daikin_setTemp(moded, w.degrees), Daikin_convertFan(w.fan))
        swung == Daikin_setSwingHorizontal(
                     Daikin_setSwingVertical(fanned, w.swingv # "Off"),
                     w.swingh # "Off")
    IN Daikin_setMold(Daikin_setEcono(Daikin_setPowerful(Daikin_setQuiet(swung, w.quiet),
                                                         w.turbo),
                                      w.econo), w.clean)

Daikin_Wishes == [power : BOOLEAN, mode : opmode_t, degrees : {19, 45, 65},
                  fan : fanspeed_t, swingv : {"Off", "High"}, swingh : {"Off"},
                  quiet : BOOLEAN, turbo : BOOLEAN, econo : BOOLEAN,
                  clean : {FALSE}]

Daikin_Init == ac \in {Daikin_stateReset} \cup {Daikin_daikin(w) : w \in Daikin_Wishes}

Daikin_Next ==
    \/ \E on \in BOOLEAN :
           \/ ac' = Daikin_setPower(ac, on) \/ ac' = Daikin_setQuiet(ac, on)
           \/ ac' = Daikin_setPowerful(ac, on) \/ ac' = Daikin_setEcono(ac, on)
           \/ ac' = Daikin_setMold(ac, on) /\ ac.Mode = "Dry"
           \/ ac' = Daikin_setSwingHorizontal(ac, on) /\ ac.Mode = "Dry"
           \/ ac' = Daikin_setSwingVertical(ac, on) /\ ac.Mode = "Dry"
    \/ \E t \in {45, 65} : ac' = Daikin_setTemp(ac, t)
    \/ \E s \in {Daikin_FanMin + 1, 9} : ac' = Daikin_setFan(ac, s) /\ ac.Mode = "Dry"
    \/ ac' = Daikin_setMode(ac, "?")
    \/ /\ ac.Mode = "Dry"
       /\ ac' = Daikin_enableOnTimer(ac, 480) \/ ac' = Daikin_enableOffTimer(ac, 1320)
    \/ ac' = Daikin_disableOnTimer(ac) \/ ac' = Daikin_disableOffTimer(ac)

Daikin_TypeOK == ac \in Daikin_Object

(* Powerful is neither quiet nor economical, whatever was asked first; a   *)
(* time is told exactly while its timer is on.                             *)
Daikin_Rules ==
    /\ ac.Powerful => ~ac.Quiet /\ ~ac.Econo
    /\ ac.OnTimer = (ac.OnTime # Daikin_UnusedTime)
    /\ ac.OffTimer = (ac.OffTime # Daikin_UnusedTime)

(* A state that was read is sent as it was read. *)
Daikin_Rereads ==
    LET read == Daikin_toCommon(ac) IN SameState(read, Daikin_toCommon(Daikin_daikin(read)), {})

-----------------------------------------------------------------------------
(***************************************************************************)
(* ir_Daikin.h, ir_Daikin.cpp, class IRDaikin2: humidity, which only Heat  *)
(* and Dry have, takes the temperature; the sleep timer shares its time    *)
(* with the on timer; quiet and powerful end each other.                   *)
(***************************************************************************)
Daikin2_Modes == {"Auto", "Dry", "Cool", "Heat", "Fan"}
Daikin2_MinTemp == 10
Daikin2_MinCoolTemp == 18
Daikin2_MaxTemp == 32
Daikin2_FanMin == 1
Daikin2_FanMed == 3
Daikin2_FanMax == 5
Daikin2_FanAuto == 10
Daikin2_FanQuiet == 11
Daikin2_UnusedTime == 1536
Daikin2_SwingVHighest == 1
Daikin2_SwingVBreeze == 12
Daikin2_SwingVOff == 14
Daikin2_SwingVAuto == 15
Daikin2_SwingsV == Daikin2_SwingVHighest..6 \cup {Daikin2_SwingVBreeze, 13, Daikin2_SwingVOff,
                                                  Daikin2_SwingVAuto}
Daikin2_SwingsH == swingh_t
(* In percent; 50 is the highest of Heat and the lowest of Dry. *)
Daikin2_HumidityOff == 0
Daikin2_HumidityAuto == 255
Daikin2_Humidities(mode) ==
    CASE mode = "Heat" -> {Daikin2_HumidityOff, 40, 45, 50, Daikin2_HumidityAuto}
      [] mode = "Dry" -> {Daikin2_HumidityOff, 50, 55, 60, Daikin2_HumidityAuto}
      [] OTHER -> {}
(* On and off, and nothing else in the class looks at them. *)
Daikin2_Flags == {"Econo", "Purify", "Mold", "Clean", "FreshAir", "FreshAirHigh",
                  "Eye", "EyeAuto"}

(* Temp is 0 and SwingV 0 in a new object. *)
Daikin2_Object == [Power : BOOLEAN, Power2 : BOOLEAN, Mode : Daikin2_Modes,
                   Temp : {0} \cup Daikin2_MinTemp..Daikin2_MaxTemp, Humidity : 0..255,
                   HumidOn : BOOLEAN, Fan : 3..7 \cup {Daikin2_FanAuto, Daikin2_FanQuiet},
                   SwingV : {0} \cup Daikin2_SwingsV, SwingH : Daikin2_SwingsH, Quiet : BOOLEAN,
                   Powerful : BOOLEAN, Light : 0..3, Beep : 0..3, OnTimer : BOOLEAN,
                   SleepTimer : BOOLEAN, OnTime : 0..4095, OffTimer : BOOLEAN,
                   OffTime : 0..4095, flags : SUBSET Daikin2_Flags]

Daikin2_stateReset ==
    [Power |-> FALSE, Power2 |-> TRUE, Mode |-> "Auto", Temp |-> 0,
     Humidity |-> Daikin2_HumidityOff, HumidOn |-> FALSE, Fan |-> Daikin2_FanAuto,
     SwingV |-> 0, SwingH |-> "Auto", Quiet |-> FALSE, Powerful |-> FALSE,
     Light |-> 3, Beep |-> 1, OnTimer |-> FALSE, SleepTimer |-> FALSE,
     OnTime |-> Daikin2_UnusedTime, OffTimer |-> FALSE, OffTime |-> Daikin2_UnusedTime,
     flags |-> {"Mold"}]

Daikin2_setPower(a, on) == [a EXCEPT !.Power = on, !.Power2 = ~on]

Daikin2_setTemp(a, desired) ==
    [a EXCEPT !.Temp = IF a.HumidOn THEN Daikin2_MaxTemp
                       ELSE Clamp(desired, IF a.Mode = "Cool" THEN Daikin2_MinCoolTemp
                                           ELSE Daikin2_MinTemp, Daikin2_MaxTemp)]

Daikin2_setHumidity(a, percent) ==
    LET h == IF percent \in Daikin2_Humidities(a.Mode) THEN percent ELSE Daikin2_HumidityOff
    IN Daikin2_setTemp([a EXCEPT !.Humidity = h, !.HumidOn = h # Daikin2_HumidityOff], a.Temp)

Daikin2_setMode(a, mode) ==
    LET m == [a EXCEPT !.Mode = IF mode \in Daikin2_Modes THEN mode ELSE "Auto"]
    IN Daikin2_setHumidity(IF m.Mode = "Cool" THEN Daikin2_setTemp(m, m.Temp) ELSE m,
                           m.Humidity)

Daikin2_setFan(a, fan) ==
    [a EXCEPT !.Fan = CASE fan \in {Daikin2_FanQuiet, Daikin2_FanAuto} -> fan
                        [] fan \in Daikin2_FanMin..Daikin2_FanMax -> 2 + fan
                        [] OTHER -> Daikin2_FanAuto]
Daikin2_getFan(a) == IF a.Fan \in {Daikin2_FanQuiet, Daikin2_FanAuto} THEN a.Fan ELSE a.Fan - 2
Daikin2_setSwingVertical(a, position) ==
    [a EXCEPT !.SwingV = IF position \in Daikin2_SwingsV THEN position ELSE @]
Daikin2_setSwingHorizontal(a, position) == [a EXCEPT !.SwingH = position]
Daikin2_setLight(a, light) == [a EXCEPT !.Light = light]
Daikin2_setBeep(a, beep) == [a EXCEPT !.Beep = beep]
Daikin2_setFlag(a, f, on) ==
    [a EXCEPT !.flags = IF on THEN @ \cup {f} ELSE @ \ {f}]

Daikin2_setQuiet(a, on) == [a EXCEPT !.Quiet = on, !.Powerful = @ /\ ~on]
Daikin2_setPowerful(a, on) == [a EXCEPT !.Powerful = on, !.Quiet = @ /\ ~on]

Daikin2_enableOnTimer(a, starttime) ==
    [a EXCEPT !.SleepTimer = FALSE, !.OnTimer = TRUE, !.OnTime = starttime]
Daikin2_disableOnTimer(a) ==
    [a EXCEPT !.SleepTimer = FALSE, !.OnTimer = FALSE, !.OnTime = Daikin2_UnusedTime]
Daikin2_enableOffTimer(a, endtime) ==
    [a EXCEPT !.OffTimer = TRUE, !.OffTime = endtime]
Daikin2_disableOffTimer(a) == [a EXCEPT !.OffTimer = FALSE, !.OffTime = Daikin2_UnusedTime]
Daikin2_enableSleepTimer(a, sleeptime) ==
    [Daikin2_enableOnTimer(a, sleeptime) EXCEPT !.OnTimer = FALSE, !.SleepTimer = TRUE]
Daikin2_disableSleepTimer(a) == Daikin2_disableOnTimer(a)

Daikin2_convertMode(mode) == IF mode \in Daikin2_Modes THEN mode ELSE "Auto"
Daikin2_convertFan(speed) ==
    CASE speed = "Min" -> Daikin2_FanQuiet [] speed = "Low" -> Daikin2_FanMin
      [] speed = "Medium" -> Daikin2_FanMed [] speed = "High" -> Daikin2_FanMax - 1
      [] speed = "Max" -> Daikin2_FanMax [] OTHER -> Daikin2_FanAuto
(* The number of the position in stdAc is added to that of the highest. *)
Daikin2_convertSwingV(position) ==
    CASE position = "Highest" -> 1 + Daikin2_SwingVHighest
      [] position = "High" -> 2 + Daikin2_SwingVHighest
      [] position = "Middle" -> 3 + Daikin2_SwingVHighest
      [] position = "Low" -> 4 + Daikin2_SwingVHighest
      [] position = "Lowest" -> 5 + Daikin2_SwingVHighest
      [] position = "Off" -> Daikin2_SwingVOff [] OTHER -> Daikin2_SwingVAuto
Daikin2_convertSwingH(position) == IF position = "Off" THEN "Auto" ELSE position
Daikin2_toCommonFanSpeed(speed) ==
    CASE speed = Daikin2_FanMax -> "Max" [] speed = Daikin2_FanMax - 1 -> "High"
      [] speed \in {Daikin2_FanMed,
                    Daikin2_FanMin + 1} -> "Medium" [] speed = Daikin2_FanMin -> "Low"
      [] speed = Daikin2_FanQuiet -> "Min" [] OTHER -> "Auto"
Daikin2_toCommonSwingV(setting) ==
    CASE setting = 1 -> "Highest" [] setting = 2 -> "High"
      [] setting \in {3, 4} -> "Middle" [] setting = 5 -> "Low"
      [] setting = 6 -> "Lowest" [] setting = Daikin2_SwingVOff -> "Off"
      [] OTHER -> "Auto"
Daikin2_toCommonSwingH(setting) == setting

(* sleep in minutes, -1 without. *)
Daikin2_toCommon(a) ==
    [power |-> a.Power /\ ~a.Power2, mode |-> a.Mode, degrees |-> a.Temp,
     fan |-> Daikin2_toCommonFanSpeed(Daikin2_getFan(a)), swingv |-> Daikin2_toCommonSwingV(a.SwingV),
     swingh |-> Daikin2_toCommonSwingH(a.SwingH), quiet |-> a.Quiet,
     light |-> a.Light # 3, turbo |-> a.Powerful, clean |-> "Mold" \in a.flags,
     econo |-> "Econo" \in a.flags, filter |-> "Purify" \in a.flags,
     beep |-> a.Beep # 3, sleep |-> IF a.SleepTimer THEN a.OnTime ELSE -1]

Daikin2_daikin2(w) ==
    LET moded == Daikin2_setMode(Daikin2_setPower(Daikin2_stateReset, w.power),
                                 Daikin2_convertMode(w.mode))
        fanned == Daikin2_setFan(Daikin2_setTemp(moded, w.degrees), Daikin2_convertFan(w.fan))
        swung == Daikin2_setSwingHorizontal(
                     Daikin2_setSwingVertical(fanned, Daikin2_convertSwingV(w.swingv)),
                     Daikin2_convertSwingH(w.swingh))
        lit == Daikin2_setLight(Daikin2_setQuiet(swung, w.quiet), IF w.light THEN 1 ELSE 3)
        econo == Daikin2_setFlag(Daikin2_setPowerful(lit, w.turbo), "Econo", w.econo)
        mold == Daikin2_setFlag(Daikin2_setFlag(econo, "Purify", w.filter), "Mold", w.clean)
        beep == Daikin2_setBeep(Daikin2_setFlag(mold, "Clean", TRUE), IF w.beep THEN 2 ELSE 3)
    IN IF w.sleep > 0 THEN Daikin2_enableSleepTimer(beep, w.sleep) ELSE beep

Daikin2_Wishes == [power : {TRUE}, mode : opmode_t, degrees : {9, 33}, fan : {"Min"},
                   swingv : {"Highest", "High", "Off", "Auto"}, swingh : {"Off"},
                   quiet : BOOLEAN, turbo : BOOLEAN, light : {FALSE}, econo : {FALSE},
                   filter : {TRUE}, clean : {FALSE}, beep : {TRUE}, sleep : {-1, 60}]

Daikin2_Init == ac \in {Daikin2_stateReset} \cup {Daikin2_daikin2(w) : w \in Daikin2_Wishes}

(* Settings that no other depends on are only moved where the vane blows a *)
(* breeze, which no message of IRac says.                                  *)
Daikin2_Aside == ac.SwingV = Daikin2_SwingVBreeze

Daikin2_Next ==
    \/ \E on \in BOOLEAN :
           \/ Daikin2_Aside /\ ac' = Daikin2_setPower(ac, on)
           \/ ac' = Daikin2_setQuiet(ac, on)
           \/ ac' = Daikin2_setPowerful(ac, on)
           \/ Daikin2_Aside /\ ac' = Daikin2_setFlag(ac, "Econo", on)
    \/ Daikin2_Aside /\ (ac' = Daikin2_setLight(ac, 2) \/ ac' = Daikin2_setBeep(ac, 3))
    \/ Daikin2_Aside /\ (ac' = Daikin2_setFan(ac, 2) \/ ac' = Daikin2_setFan(ac, 9))
    \/ Daikin2_Aside /\ ac' = Daikin2_setSwingHorizontal(ac, "Left")
    \/ \E t \in {9, 21} : ac' = Daikin2_setTemp(ac, t)
    \/ \E m \in {"Heat", "Cool"} : ac' = Daikin2_setMode(ac, m)
    \/ \E h \in {40, 50, Daikin2_HumidityOff} : ac' = Daikin2_setHumidity(ac, h)
    \/ \E p \in {Daikin2_SwingVBreeze, 9} : ac' = Daikin2_setSwingVertical(ac, p)
    \/ ac' = Daikin2_enableOnTimer(ac, 480) \/ ac' = Daikin2_disableOnTimer(ac)
    \/ ac' = Daikin2_enableSleepTimer(ac, 60) \/ ac' = Daikin2_disableSleepTimer(ac)
    \/ Daikin2_Aside /\ (ac' = Daikin2_enableOffTimer(ac, 1320) \/ ac' = Daikin2_disableOffTimer(ac))

Daikin2_TypeOK == ac \in Daikin2_Object

(* Humidity is only told where there is one, and then with the highest     *)
(* temperature, which stays when the humidity goes; Cool is never below    *)
(* its own minimum; the on timer and sleep never claim the same time; a    *)
(* sleep a message tells has a time.                                       *)
Daikin2_Rules ==
    /\ ac.HumidOn = (ac.Humidity # Daikin2_HumidityOff)
    /\ ac.HumidOn => ac.Humidity \in Daikin2_Humidities(ac.Mode) /\ ac.Temp = Daikin2_MaxTemp
    /\ ac.HumidOn => Daikin2_setHumidity(ac, Daikin2_HumidityOff).Temp = Daikin2_MaxTemp
    /\ ac.Mode = "Cool" => ac.Temp >= Daikin2_MinCoolTemp
    /\ ~(ac.OnTimer /\ ac.SleepTimer)
    /\ ~(ac.OnTimer \/ ac.SleepTimer) = (ac.OnTime = Daikin2_UnusedTime)
    /\ ~(ac.Powerful /\ ac.Quiet)

(* A state that was read is sent as it was read, but for a new object's    *)
(* temperature, for the horizontal vane, which cannot be asked to stand    *)
(* still, and for the vertical one, which is sent one position lower than  *)
(* it was read at, down to the middle.                                     *)
Daikin2_Rereads ==
    LET read == Daikin2_toCommon(ac) again == Daikin2_toCommon(Daikin2_daikin2(read)) IN
    /\ SameState(read, again, {"swingv"}
                              \cup (IF read.swingh = "Off" THEN {"swingh"}
                                    ELSE {})
                              \cup (IF ac.Temp = 0 THEN {"degrees"} ELSE {}))
    /\ again.swingv = CASE read.swingv = "Highest" -> "High"
                        [] read.swingv = "High" -> "Middle"
                        [] OTHER -> read.swingv

-----------------------------------------------------------------------------
(***************************************************************************)
(* ir_Daikin.h, ir_Daikin.cpp, class IRDaikin216: quiet is a speed of the  *)
(* fan, and powerful a bit that takes that speed away.                     *)
(***************************************************************************)
Daikin216_Modes == {"Auto", "Dry", "Cool", "Heat", "Fan"}
Daikin216_MinTemp == 10
Daikin216_MaxTemp == 32
Daikin216_FanMin == 1
Daikin216_FanMed == 3
Daikin216_FanMax == 5
Daikin216_FanAuto == 10
Daikin216_FanQuiet == 11

(* Temp is 0 and Fan 0 in a new object. *)
Daikin216_Object == [Power : BOOLEAN, Mode : Daikin216_Modes,
                     Temp : {0} \cup Daikin216_MinTemp..Daikin216_MaxTemp,
                     Fan : {0} \cup 3..7 \cup {Daikin216_FanAuto, Daikin216_FanQuiet},
                     SwingV : BOOLEAN, SwingH : BOOLEAN, Powerful : BOOLEAN]

Daikin216_stateReset == [Power |-> FALSE, Mode |-> "Auto", Temp |-> 0, Fan |-> 0,
                         SwingV |-> FALSE, SwingH |-> FALSE, Powerful |-> FALSE]

Daikin216_setPower(a, on) == [a EXCEPT !.Power = on]
Daikin216_setMode(a, mode) == [a EXCEPT !.Mode = IF mode \in Daikin216_Modes THEN mode ELSE "Auto"]
Daikin216_setTemp(a, temp) == [a EXCEPT !.Temp = Clamp(temp, Daikin216_MinTemp, Daikin216_MaxTemp)]
Daikin216_setFan(a, fan) ==
    [a EXCEPT !.Fan = CASE fan \in {Daikin216_FanQuiet, Daikin216_FanAuto} -> fan
                        [] fan \in Daikin216_FanMin..Daikin216_FanMax -> 2 + fan
                        [] OTHER -> Daikin216_FanAuto]
(* Of a new object: 0 - 2 in a byte. *)
Daikin216_getFan(a) ==
    IF a.Fan \in {Daikin216_FanQuiet, Daikin216_FanAuto} THEN a.Fan ELSE (a.Fan - 2) % 256
Daikin216_setSwingVertical(a, on) == [a EXCEPT !.SwingV = on]
Daikin216_setSwingHorizontal(a, on) == [a EXCEPT !.SwingH = on]

Daikin216_getQuiet(a) == Daikin216_getFan(a) = Daikin216_FanQuiet

Daikin216_setQuiet(a, on) ==
    CASE on -> [Daikin216_setFan(a, Daikin216_FanQuiet) EXCEPT !.Powerful = FALSE]
      [] ~on /\ Daikin216_getQuiet(a) -> Daikin216_setFan(a, Daikin216_FanAuto)
      [] OTHER -> a

Daikin216_setPowerful(a, on) ==
    IF on THEN Daikin216_setQuiet([a EXCEPT !.Powerful = TRUE], FALSE)
          ELSE [a EXCEPT !.Powerful = FALSE]

Daikin216_convertMode(mode) == IF mode \in Daikin216_Modes THEN mode ELSE "Auto"
Daikin216_convertFan(speed) ==
    CASE speed = "Min" -> Daikin216_FanQuiet [] speed = "Low" -> Daikin216_FanMin
      [] speed = "Medium" -> Daikin216_FanMed [] speed = "High" -> Daikin216_FanMax - 1
      [] speed = "Max" -> Daikin216_FanMax [] OTHER -> Daikin216_FanAuto
Daikin216_toCommonFanSpeed(speed) ==
    CASE speed = Daikin216_FanMax -> "Max" [] speed = Daikin216_FanMax - 1 -> "High"
      [] speed \in {Daikin216_FanMed,
                    Daikin216_FanMin + 1} -> "Medium" [] speed = Daikin216_FanMin -> "Low"
      [] speed = Daikin216_FanQuiet -> "Min" [] OTHER -> "Auto"

Daikin216_toCommon(a) ==
    [power |-> a.Power, mode |-> a.Mode, degrees |-> a.Temp,
     fan |-> Daikin216_toCommonFanSpeed(Daikin216_getFan(a)), swingv |-> OnOff(a.SwingV),
     swingh |-> OnOff(a.SwingH), quiet |-> Daikin216_getQuiet(a), turbo |-> a.Powerful]

Daikin216_daikin216(w) ==
    LET moded == Daikin216_setMode(Daikin216_setPower(Daikin216_stateReset, w.power),
                                   Daikin216_convertMode(w.mode))
        fanned == Daikin216_setFan(Daikin216_setTemp(moded, w.degrees),
                                   Daikin216_convertFan(w.fan))
        swung == Daikin216_setSwingHorizontal(
                     Daikin216_setSwingVertical(fanned, w.swingv # "Off"),
                     w.swingh # "Off")
    IN Daikin216_setPowerful(Daikin216_setQuiet(swung, w.quiet), w.turbo)

Daikin216_Wishes == [power : BOOLEAN, mode : opmode_t, degrees : {9, 21, 33},
                     fan : fanspeed_t, swingv : {"Off", "Low"}, swingh : {"Off", "Left"},
                     quiet : BOOLEAN, turbo : BOOLEAN]

Daikin216_Init == ac \in {Daikin216_stateReset} \cup {Daikin216_daikin216(w) : w \in Daikin216_Wishes}

Daikin216_Next ==
    \/ \E on \in BOOLEAN :
           \/ ac' = Daikin216_setPower(ac, on) \/ ac' = Daikin216_setQuiet(ac, on)
           \/ ac' = Daikin216_setPowerful(ac, on) \/ ac' = Daikin216_setSwingVertical(ac, on)
           \/ ac' = Daikin216_setSwingHorizontal(ac, on)
    \/ \E t \in {9, 21} : ac' = Daikin216_setTemp(ac, t)
    \/ \E s \in {Daikin216_FanMin + 1, Daikin216_FanQuiet, 9} : ac' = Daikin216_setFan(ac, s)
    \/ ac' = Daikin216_setMode(ac, "?")

Daikin216_TypeOK == ac \in Daikin216_Object

(* Quiet and powerful are never both asked for by their own setters; the   *)
(* fan's speed alone can still be set to quiet under powerful, and to ask  *)
(* for the slowest fan without quiet gives the automatic one.              *)
Daikin216_Rules ==
    /\ \A on \in BOOLEAN :
           LET q == Daikin216_setQuiet(ac, on) p == Daikin216_setPowerful(ac, on) IN
           /\ Daikin216_getQuiet(q) = on
           /\ on => ~q.Powerful /\ ~Daikin216_getQuiet(p)
    /\ LET slow == [Daikin216_toCommon(ac) EXCEPT !.fan = "Min", !.quiet = FALSE] IN
       Daikin216_toCommon(Daikin216_daikin216(slow)).fan = "Auto"

(* A state that was read is sent as it was read, but for a new object's    *)
(* temperature, and for quiet, and then the speed of the fan, if it was    *)
(* set under powerful.                                                     *)
Daikin216_Rereads ==
    LET read == Daikin216_toCommon(ac) IN
    SameState(read, Daikin216_toCommon(Daikin216_daikin216(read)),
              (IF ac.Temp = 0 THEN {"degrees"} ELSE {})
              \cup (IF Daikin216_getQuiet(ac) /\ ac.Powerful THEN {"fan", "quiet"}
                    ELSE {}))

-----------------------------------------------------------------------------
(***************************************************************************)
(* ir_Daikin.h, ir_Daikin.cpp, class IRDaikin312: IRDaikin2 in half        *)
(* degrees, with a horizontal vane of which a message carries four bits.   *)
(***************************************************************************)
Daikin312_Modes == {"Auto", "Dry", "Cool", "Heat", "Fan"}
Daikin312_MinTemp == 20
Daikin312_MinCoolTemp == 36
Daikin312_MaxTemp == 64
Daikin312_FanMin == 1
Daikin312_FanMed == 3
Daikin312_FanMax == 5
Daikin312_FanAuto == 10
Daikin312_FanQuiet == 11
Daikin312_UnusedTime == 1536
Daikin312_SwingVHighest == 1
Daikin312_SwingVBreeze == 12
Daikin312_SwingVOff == 0
Daikin312_SwingVAuto == 15
Daikin312_SwingsV == Daikin312_SwingVHighest..6 \cup {Daikin312_SwingVBreeze, 13,
                                                      Daikin312_SwingVOff, Daikin312_SwingVAuto}
Daikin312_SwingHAuto == 15
(* In percent; 50 is the highest of Heat and the lowest of Dry. *)
Daikin312_HumidityOff == 0
Daikin312_HumidityAuto == 255
Daikin312_Humidities(mode) ==
    CASE mode = "Heat" -> {Daikin312_HumidityOff, 40, 45, 50, Daikin312_HumidityAuto}
      [] mode = "Dry" -> {Daikin312_HumidityOff, 50, 55, 60, Daikin312_HumidityAuto}
      [] OTHER -> {}
(* On and off, and nothing else in the class looks at them. *)
Daikin312_Flags == {"Econo", "Purify", "Mold", "Clean", "FreshAir", "FreshAirHigh",
                    "Eye", "EyeAuto"}

(* Fan is 0 in a new object; SwingH has four bits. *)
Daikin312_Object == [Power : BOOLEAN, Power2 : BOOLEAN, Mode : Daikin312_Modes,
                     Temp : Daikin312_MinTemp..Daikin312_MaxTemp, Humidity : 0..255,
                     HumidOn : BOOLEAN, Fan : {0} \cup 3..7 \cup {Daikin312_FanAuto,
                                                                  Daikin312_FanQuiet},
                     SwingV : Daikin312_SwingsV, SwingH : 0..15, Quiet : BOOLEAN,
                     Powerful : BOOLEAN, Light : 0..3, Beep : 0..3, OnTimer : BOOLEAN,
                     SleepTimer : BOOLEAN, OnTime : 0..4095, OffTimer : BOOLEAN,
                     OffTime : 0..4095, flags : SUBSET Daikin312_Flags]

Daikin312_stateReset ==
    [Power |-> FALSE, Power2 |-> FALSE, Mode |-> "Auto", Temp |-> 44,
     Humidity |-> Daikin312_HumidityOff, HumidOn |-> FALSE, Fan |-> 0,
     SwingV |-> Daikin312_SwingVOff, SwingH |-> 0, Quiet |-> FALSE, Powerful |-> FALSE,
     Light |-> 1, Beep |-> 1, OnTimer |-> FALSE, SleepTimer |-> FALSE,
     OnTime |-> Daikin312_UnusedTime, OffTimer |-> FALSE, OffTime |-> Daikin312_UnusedTime,
     flags |-> {}]

Daikin312_setPower(a, on) == [a EXCEPT !.Power = on, !.Power2 = ~on]

Daikin312_setTemp(a, desired) ==
    [a EXCEPT !.Temp = IF a.HumidOn THEN Daikin312_MaxTemp
                       ELSE Clamp(desired, IF a.Mode = "Cool" THEN Daikin312_MinCoolTemp
                                           ELSE Daikin312_MinTemp, Daikin312_MaxTemp)]

Daikin312_setHumidity(a, percent) ==
    LET h == IF percent \in Daikin312_Humidities(a.Mode) THEN percent ELSE Daikin312_HumidityOff
    IN Daikin312_setTemp([a EXCEPT !.Humidity = h, !.HumidOn = h # Daikin312_HumidityOff],
                         a.Temp)

Daikin312_setMode(a, mode) ==
    LET m == [a EXCEPT !.Mode = IF mode \in Daikin312_Modes THEN mode ELSE "Auto"]
    IN Daikin312_setHumidity(IF m.Mode = "Cool" THEN Daikin312_setTemp(m, m.Temp) ELSE m,
                             m.Humidity)

Daikin312_setFan(a, fan) ==
    [a EXCEPT !.Fan = CASE fan \in {Daikin312_FanQuiet, Daikin312_FanAuto} -> fan
                        [] fan \in Daikin312_FanMin..Daikin312_FanMax -> 2 + fan
                        [] OTHER -> Daikin312_FanAuto]
Daikin312_getFan(a) == IF a.Fan \in {Daikin312_FanQuiet,
                                     Daikin312_FanAuto} THEN a.Fan ELSE (a.Fan - 2) % 256
Daikin312_setSwingVertical(a, position) ==
    [a EXCEPT !.SwingV = IF position \in Daikin312_SwingsV THEN position ELSE @]
Daikin312_setSwingHorizontal(a, position) == [a EXCEPT !.SwingH = position % 16]
Daikin312_setLight(a, light) == [a EXCEPT !.Light = light]
Daikin312_setBeep(a, beep) == [a EXCEPT !.Beep = beep]
Daikin312_setFlag(a, f, on) ==
    [a EXCEPT !.flags = IF on THEN @ \cup {f} ELSE @ \ {f}]

Daikin312_setQuiet(a, on) == [a EXCEPT !.Quiet = on, !.Powerful = @ /\ ~on]
Daikin312_setPowerful(a, on) == [a EXCEPT !.Powerful = on, !.Quiet = @ /\ ~on]

Daikin312_enableOnTimer(a, starttime) ==
    [a EXCEPT !.SleepTimer = FALSE, !.OnTimer = TRUE, !.OnTime = starttime]
Daikin312_disableOnTimer(a) ==
    [a EXCEPT !.SleepTimer = FALSE, !.OnTimer = FALSE, !.OnTime = Daikin312_UnusedTime]
Daikin312_enableOffTimer(a, endtime) ==
    [a EXCEPT !.OffTimer = TRUE, !.OffTime = endtime]
Daikin312_disableOffTimer(a) == [a EXCEPT !.OffTimer = FALSE, !.OffTime = Daikin312_UnusedTime]
Daikin312_enableSleepTimer(a, sleeptime) ==
    [Daikin312_enableOnTimer(a, sleeptime) EXCEPT !.OnTimer = FALSE, !.SleepTimer = TRUE]
Daikin312_disableSleepTimer(a) == Daikin312_disableOnTimer(a)

Daikin312_convertMode(mode) == IF mode \in Daikin312_Modes THEN mode ELSE "Auto"
Daikin312_convertFan(speed) ==
    CASE speed = "Min" -> Daikin312_FanQuiet [] speed = "Low" -> Daikin312_FanMin
      [] speed = "Medium" -> Daikin312_FanMed [] speed = "High" -> Daikin312_FanMax - 1
      [] speed = "Max" -> Daikin312_FanMax [] OTHER -> Daikin312_FanAuto
(* The number of the position in stdAc is added to that of the highest. *)
Daikin312_convertSwingV(position) ==
    CASE position = "Highest" -> 1 + Daikin312_SwingVHighest
      [] position = "High" -> 2 + Daikin312_SwingVHighest
      [] position = "Middle" -> 3 + Daikin312_SwingVHighest
      [] position = "Low" -> 4 + Daikin312_SwingVHighest
      [] position = "Lowest" -> 5 + Daikin312_SwingVHighest
      [] position = "Off" -> Daikin312_SwingVOff [] OTHER -> Daikin312_SwingVAuto
Daikin312_convertSwingH(position) ==
    CASE position = "Wide" -> 163 [] position = "LeftMax" -> 168
      [] position = "Left" -> 169 [] position = "Middle" -> 170
      [] position = "Right" -> 171 [] position = "RightMax" -> 172
      [] OTHER -> Daikin312_SwingHAuto
Daikin312_toCommonFanSpeed(speed) ==
    CASE speed = Daikin312_FanMax -> "Max" [] speed = Daikin312_FanMax - 1 -> "High"
      [] speed \in {Daikin312_FanMed,
                    Daikin312_FanMin + 1} -> "Medium" [] speed = Daikin312_FanMin -> "Low"
      [] speed = Daikin312_FanQuiet -> "Min" [] OTHER -> "Auto"
Daikin312_toCommonSwingV(setting) ==
    CASE setting = 1 -> "Highest" [] setting = 2 -> "High"
      [] setting \in {3, 4} -> "Middle" [] setting = 5 -> "Low"
      [] setting = 6 -> "Lowest" [] setting = Daikin312_SwingVOff -> "Off"
      [] OTHER -> "Auto"
(* It compares with the numbers of eight bits above as well. *)
Daikin312_toCommonSwingH(setting) == OnOff(setting = Daikin312_SwingHAuto)

(* sleep in minutes, -1 without. *)
Daikin312_toCommon(a) ==
    [power |-> a.Power /\ ~a.Power2, mode |-> a.Mode, degrees |-> a.Temp,
     fan |-> Daikin312_toCommonFanSpeed(Daikin312_getFan(a)), swingv |-> Daikin312_toCommonSwingV(a.SwingV),
     swingh |-> Daikin312_toCommonSwingH(a.SwingH), quiet |-> a.Quiet,
     light |-> a.Light # 3, turbo |-> a.Powerful, clean |-> "Mold" \in a.flags,
     econo |-> "Econo" \in a.flags, filter |-> "Purify" \in a.flags,
     beep |-> a.Beep # 3, sleep |-> IF a.SleepTimer THEN a.OnTime ELSE -1]

Daikin312_daikin312(w) ==
    LET moded == Daikin312_setMode(Daikin312_setPower(Daikin312_stateReset, w.power),
                                   Daikin312_convertMode(w.mode))
        fanned == Daikin312_setFan(Daikin312_setTemp(moded, w.degrees),
                                   Daikin312_convertFan(w.fan))
        swung == Daikin312_setSwingHorizontal(
                     Daikin312_setSwingVertical(fanned, Daikin312_convertSwingV(w.swingv)),
                     Daikin312_convertSwingH(w.swingh))
        lit == Daikin312_setLight(Daikin312_setQuiet(swung, w.quiet), IF w.light THEN 1 ELSE 3)
        econo == Daikin312_setFlag(Daikin312_setPowerful(lit, w.turbo), "Econo", w.econo)
        mold == Daikin312_setFlag(Daikin312_setFlag(econo, "Purify", w.filter), "Mold", w.clean)
        beep == Daikin312_setBeep(Daikin312_setFlag(mold, "Clean", TRUE),
                                  IF w.beep THEN 2 ELSE 3)
    IN IF w.sleep > 0 THEN Daikin312_enableSleepTimer(beep, w.sleep) ELSE beep

Daikin312_Wishes == [power : {TRUE}, mode : opmode_t, degrees : {19, 65}, fan : {"Min"},
                     swingv : {"Highest", "High", "Off"}, swingh : {"Wide"},
                     quiet : BOOLEAN, turbo : BOOLEAN, light : {FALSE}, econo : {FALSE},
                     filter : {TRUE}, clean : {FALSE}, beep : {TRUE}, sleep : {-1, 60}]

Daikin312_Init == ac \in {Daikin312_stateReset} \cup {Daikin312_daikin312(w) : w \in Daikin312_Wishes}

(* Settings that no other depends on are only moved where the vane blows a *)
(* breeze, which no message of IRac says.                                  *)
Daikin312_Aside == ac.SwingV = Daikin312_SwingVBreeze

Daikin312_Next ==
    \/ \E on \in BOOLEAN :
           \/ Daikin312_Aside /\ ac' = Daikin312_setPower(ac, on)
           \/ ac' = Daikin312_setQuiet(ac, on)
           \/ ac' = Daikin312_setPowerful(ac, on)
           \/ Daikin312_Aside /\ ac' = Daikin312_setFlag(ac, "Econo", on)
    \/ Daikin312_Aside /\ (ac' = Daikin312_setLight(ac, 2) \/ ac' = Daikin312_setBeep(ac, 3))
    \/ Daikin312_Aside /\ (ac' = Daikin312_setFan(ac, 2) \/ ac' = Daikin312_setFan(ac, 9))
    \/ Daikin312_Aside /\ ac' = Daikin312_setSwingHorizontal(ac, 0)
    \/ \E t \in {19, 43} : ac' = Daikin312_setTemp(ac, t)
    \/ \E m \in {"Heat", "Cool"} : ac' = Daikin312_setMode(ac, m)
    \/ \E h \in {40, 50, Daikin312_HumidityOff} : ac' = Daikin312_setHumidity(ac, h)
    \/ \E p \in {Daikin312_SwingVBreeze, 9} : ac' = Daikin312_setSwingVertical(ac, p)
    \/ ac' = Daikin312_enableOnTimer(ac, 480) \/ ac' = Daikin312_disableOnTimer(ac)
    \/ ac' = Daikin312_enableSleepTimer(ac, 60) \/ ac' = Daikin312_disableSleepTimer(ac)
    \/ Daikin312_Aside /\ (ac' = Daikin312_enableOffTimer(ac, 1320) \/ ac' = Daikin312_disableOffTimer(ac))

Daikin312_TypeOK == ac \in Daikin312_Object

(* Humidity is only told where there is one, and then with the highest     *)
(* temperature, which stays when the humidity goes; Cool is never below    *)
(* its own minimum; the on timer and sleep never claim the same time; a    *)
(* sleep a message tells has a time.                                       *)
Daikin312_Rules ==
    /\ ac.HumidOn = (ac.Humidity # Daikin312_HumidityOff)
    /\ ac.HumidOn => ac.Humidity \in Daikin312_Humidities(ac.Mode) /\ ac.Temp = Daikin312_MaxTemp
    /\ ac.HumidOn => Daikin312_setHumidity(ac, Daikin312_HumidityOff).Temp = Daikin312_MaxTemp
    /\ ac.Mode = "Cool" => ac.Temp >= Daikin312_MinCoolTemp
    /\ ~(ac.OnTimer /\ ac.SleepTimer)
    /\ ~(ac.OnTimer \/ ac.SleepTimer) = (ac.OnTime = Daikin312_UnusedTime)
    /\ ~(ac.Powerful /\ ac.Quiet)

(* A state that was read is sent as it was read, but for the horizontal    *)
(* vane, which is read as standing still unless it swings and is then sent *)
(* as swinging, and for the vertical one, which is sent one position lower *)
(* than it was read at, down to the middle.                                *)
Daikin312_Rereads ==
    LET read == Daikin312_toCommon(ac) again == Daikin312_toCommon(Daikin312_daikin312(read)) IN
    /\ SameState(read, again, {"swingv", "swingh"})
    /\ again.swingh = "Auto"
    /\ again.swingv = CASE read.swingv = "Highest" -> "High"
                        [] read.swingv = "High" -> "Middle"
                        [] OTHER -> read.swingv

-----------------------------------------------------------------------------
Init ==
    \/ remote = "Daikin" /\ Daikin_Init
    \/ remote = "Daikin2" /\ Daikin2_Init
    \/ remote = "Daikin216" /\ Daikin216_Init
    \/ remote = "Daikin312" /\ Daikin312_Init

Next ==
    /\ UNCHANGED remote
    /\ \/ remote = "Daikin" /\ Daikin_Next
       \/ remote = "Daikin2" /\ Daikin2_Next
       \/ remote = "Daikin216" /\ Daikin216_Next
       \/ remote = "Daikin312" /\ Daikin312_Next

Spec == Init /\ [][Next]_<<remote, ac>>

(* The object stays one that its message can carry. *)
TypeOK ==
    CASE remote = "Daikin" -> Daikin_TypeOK
      [] remote = "Daikin2" -> Daikin2_TypeOK
      [] remote = "Daikin216" -> Daikin216_TypeOK
      [] remote = "Daikin312" -> Daikin312_TypeOK
      [] OTHER -> TRUE

(* What a class says of its settings together, see there. *)
Rules ==
    CASE remote = "Daikin" -> Daikin_Rules
      [] remote = "Daikin2" -> Daikin2_Rules
      [] remote = "Daikin216" -> Daikin216_Rules
      [] remote = "Daikin312" -> Daikin312_Rules
      [] OTHER -> TRUE

(* A state that was read from a message is sent as it was read, see there. *)
Rereads ==
    CASE remote = "Daikin" -> Daikin_Rereads
      [] remote = "Daikin2" -> Daikin2_Rereads
      [] remote = "Daikin216" -> Daikin216_Rereads
      [] remote = "Daikin312" -> Daikin312_Rereads
      [] OTHER -> TRUE
=============================================================================
