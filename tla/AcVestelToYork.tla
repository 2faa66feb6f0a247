---------------------------- MODULE AcVestelToYork ----------------------------
(***************************************************************************)
(* The remotes of Vestel, Voltas, Whirlpool and York: one object of one of *)
(* the classes, `Vestel', `Voltas', `Whirlpool', `York'. What belongs to a *)
(* class has its name in front, as in Vestel_Next; after it come the names *)
(* of the source.                                                          *)
(***************************************************************************)
EXTENDS StdAc

VARIABLES
    remote,    \* the class
    ac         \* its object

-----------------------------------------------------------------------------
(***************************************************************************)
(* ir_Vestel.h, ir_Vestel.cpp: two messages, one of the settings and one   *)
(* of the clock and the timers; the one that is sent is the one that was   *)
(* changed last.                                                           *)
(***************************************************************************)
Vestel_Modes == {"Auto", "Cool", "Dry", "Fan", "Heat"}
Vestel_Fans == {"Auto", "Low", "Med", "High", "AutoCool", "AutoHot"}

(* A time is its hours and its tens of minutes. *)
Vestel_Tens == (0..31) \X (0..7)

Vestel_Object == [Power : BOOLEAN, Mode : Vestel_Modes, Temp : 0..14, Fan : Vestel_Fans,
                  TurboSleep : {"Normal", "Sleep", "Turbo"}, Ion : BOOLEAN,
                  Swing : BOOLEAN, UseCmd : BOOLEAN, Timer : BOOLEAN,
                  OnTimer : BOOLEAN, OffTimer : BOOLEAN, On : Vestel_Tens, Off : Vestel_Tens,
                  Hours : 0..31, Minutes : 0..59]

Vestel_stateReset == [Power |-> TRUE, Mode |-> "Auto", Temp |-> 9, Fan |-> "AutoHot",
                      TurboSleep |-> "Normal", Ion |-> FALSE, Swing |-> FALSE,
                      UseCmd |-> TRUE, Timer |-> FALSE, OnTimer |-> FALSE,
                      OffTimer |-> FALSE, On |-> <<0, 0>>, Off |-> <<0, 0>>,
                      Hours |-> 0, Minutes |-> 0]

Vestel_Command(a) == [a EXCEPT !.UseCmd = TRUE]
Vestel_isTimeCommand(a) == ~a.UseCmd

Vestel_setPower(a, on) == Vestel_Command([a EXCEPT !.Power = on])
Vestel_setIon(a, on) == Vestel_Command([a EXCEPT !.Ion = on])
Vestel_setSwing(a, on) == Vestel_Command([a EXCEPT !.Swing = on])
Vestel_setTemp(a, temp) == Vestel_Command([a EXCEPT !.Temp = Clamp(temp, 18, 30) - 16])
Vestel_setFan(a, fan) == Vestel_Command([a EXCEPT !.Fan = IF fan \in Vestel_Fans THEN fan ELSE "Auto"])
Vestel_setMode(a, mode) ==
    Vestel_Command([a EXCEPT !.Mode = IF mode \in Vestel_Modes THEN mode ELSE "Auto"])

Vestel_setSleep(a, on) ==
    Vestel_Command([a EXCEPT !.TurboSleep = IF on THEN "Sleep" ELSE "Normal"])
Vestel_setTurbo(a, on) ==
    Vestel_Command([a EXCEPT !.TurboSleep = IF on THEN "Turbo" ELSE "Normal"])

Vestel_setAuto(a, level) ==
    IF level \notin -2..2 THEN a ELSE
    Vestel_setTemp([a EXCEPT !.Mode = "Auto",
                             !.Fan = IF level < 0 THEN "AutoCool" ELSE "AutoHot"],
                   CASE level = 2 -> 30 [] level = 1 -> 31 [] level = 0 -> 25
                     [] level = -1 -> 16 [] OTHER -> 17)

Vestel_Split(minutes) == <<minutes \div 60, (minutes % 60) \div 10>>
Vestel_Joined(time) == 60 * time[1] + 10 * time[2]

Vestel_setTimer(a, minutes) ==
    [a EXCEPT !.On = <<0, 0>>, !.Off = Vestel_Split(minutes), !.OffTimer = FALSE,
              !.OnTimer = minutes # 0, !.Timer = minutes # 0, !.UseCmd = FALSE]

Vestel_setOnTimer(a, minutes) ==
    [a EXCEPT !.On = Vestel_Split(minutes), !.OnTimer = minutes # 0, !.Timer = FALSE,
              !.UseCmd = FALSE]

Vestel_setOffTimer(a, minutes) ==
    [a EXCEPT !.Off = Vestel_Split(minutes), !.OffTimer = minutes # 0, !.Timer = FALSE,
              !.UseCmd = FALSE]

Vestel_setTime(a, minutes) ==
    [a EXCEPT !.Hours = minutes \div 60, !.Minutes = minutes % 60,
              !.UseCmd = FALSE]

Vestel_convertMode(mode) == IF mode = "Off" THEN "Auto" ELSE mode
Vestel_toCommonMode(mode) == mode

Vestel_convertFan(fan) ==
    CASE fan \in {"Min", "Low"} -> "Low" [] fan = "Medium" -> "Med"
      [] fan \in {"High", "Max"} -> "High" [] OTHER -> "Auto"

Vestel_toCommonFanSpeed(fan) ==
    CASE fan = "High" -> "Max" [] fan = "Med" -> "Medium"
      [] fan = "Low" -> "Min" [] OTHER -> "Auto"

Vestel_toCommon(a) ==
    [power |-> a.Power, mode |-> Vestel_toCommonMode(a.Mode),
     degrees |-> a.Temp + 16, fan |-> Vestel_toCommonFanSpeed(a.Fan),
     swingv |-> OnOff(a.Swing), turbo |-> a.TurboSleep = "Turbo",
     filter |-> a.Ion, sleep |-> a.TurboSleep = "Sleep"]

(* The settings as they are sent; sleep is set after turbo, on or off. *)
Vestel_vestel(w) ==
    LET fanned == Vestel_setFan(Vestel_setTemp(Vestel_setMode(Vestel_setPower(Vestel_stateReset,
                                                                              w.power),
                                                              Vestel_convertMode(w.mode)), w.degrees),
                                Vestel_convertFan(w.fan))
    IN Vestel_setSleep(Vestel_setIon(Vestel_setTurbo(Vestel_setSwing(fanned, w.swingv # "Off"),
                                                     w.turbo),
                                     w.filter), w.sleep)

Vestel_Wishes == [power : BOOLEAN, mode : opmode_t, degrees : {17, 24, 31},
                  fan : {"Auto", "Low", "Medium"}, swingv : {"Off", "Low"},
                  turbo : BOOLEAN, filter : {FALSE}, sleep : BOOLEAN]

Vestel_Init == ac \in {Vestel_stateReset} \cup {Vestel_vestel(w) : w \in Vestel_Wishes}

Vestel_Next ==
    \/ \E on \in BOOLEAN : ac' = Vestel_setPower(ac, on)
    \/ ac' = Vestel_setMode(ac, "?")
    \/ ac' = Vestel_setTemp(ac, 31)
    \/ \E f \in {"High", "?"} : ac' = Vestel_setFan(ac, f)
    \/ \E level \in -2..3 : ac' = Vestel_setAuto(ac, level)
    \/ \E on \in BOOLEAN : ac' = Vestel_setSleep(ac, on)
    \/ \E on \in BOOLEAN : ac' = Vestel_setTurbo(ac, on)
    \/ ac' = Vestel_setIon(ac, TRUE)
    \/ ac' = Vestel_setSwing(ac, TRUE)
    \/ \E n \in {0, 9} : ac' = Vestel_setTimer(ac, n)
    \/ \E n \in {0, 9} : ac' = Vestel_setOnTimer(ac, n)
    \/ \E n \in {0, 609} : ac' = Vestel_setOffTimer(ac, n)
    \/ ac' = Vestel_setTime(ac, 24 * 60 - 1)

Vestel_TypeOK == ac \in Vestel_Object

(* Timers that are set through setTimer, setOnTimer and setOffTimer never  *)
(* leave the message with the kinds mixed: the timer of "so many minutes"  *)
(* is active alone.  A time loses its last digit, so that a timer of less  *)
(* than ten minutes is active with no time.  The five levels of Auto are   *)
(* three temperatures, for those of 16, 17 and 31 are out of range.        *)
Vestel_Rules ==
    /\ ac.Timer => ac.OnTimer /\ ~ac.OffTimer /\ ac.On = <<0, 0>>
    /\ \A n \in {9, 10, 609, 24 * 60} :
         /\ Vestel_Joined(Vestel_setOnTimer(ac, n).On) = n - (n % 10)
         /\ Vestel_setOnTimer(ac, n).OnTimer
    /\ \A level \in -2..2 :
         Vestel_setAuto(ac, level).Temp + 16 =
           CASE level < 0 -> 18 [] level = 0 -> 25 [] OTHER -> 30

(* A state that was read is sent as it was read, but for turbo, which the  *)
(* sleep that is set after it ends in any case.                            *)
Vestel_Rereads == SameState(Vestel_toCommon(ac),
                            Vestel_toCommon(Vestel_vestel(Vestel_toCommon(ac))),
                            IF ac.TurboSleep = "Turbo" THEN {"turbo"} ELSE {})

-----------------------------------------------------------------------------
(***************************************************************************)
(* ir_Voltas.h, ir_Voltas.cpp: turbo, econo and sleep are for Cool only,   *)
(* Fan has no automatic speed, and one model has no horizontal swing.      *)
(***************************************************************************)
Voltas_Models == {"Unknown", "122LZF"}
Voltas_Modes == {"Fan", "Heat", "Dry", "Cool"}
Voltas_Fans == {"High", "Med", "Low", "Auto"}

(* A time is a bit for the afternoon, the hour from one and the minutes. *)
Voltas_Time == (0..1) \X (0..11) \X (0..59)

Voltas_Object == [model : Voltas_Models, Power : BOOLEAN, Mode : Voltas_Modes,
                  Fan : Voltas_Fans,
                  Temp : 0..14, SwingV : BOOLEAN, SwingH : BOOLEAN,
                  SwingHChange : BOOLEAN, Light : BOOLEAN, Turbo : BOOLEAN,
                  Econo : BOOLEAN, Sleep : BOOLEAN, On : Voltas_Time, OnEnable : BOOLEAN]

Voltas_setTemp(a, temp) == [a EXCEPT !.Temp = Clamp(temp, 16, 30) - 16]
Voltas_setPower(a, on) == [a EXCEPT !.Power = on]
Voltas_setLight(a, on) == [a EXCEPT !.Light = on]
Voltas_setSwingV(a, on) == [a EXCEPT !.SwingV = on]
Voltas_setTurbo(a, on) == [a EXCEPT !.Turbo = on /\ a.Mode = "Cool"]
Voltas_setEcono(a, on) == [a EXCEPT !.Econo = on /\ a.Mode = "Cool"]
Voltas_setSleep(a, on) == [a EXCEPT !.Sleep = on /\ a.Mode = "Cool"]

Voltas_setSwingHChange(a, on) ==
    [a EXCEPT !.SwingHChange = on, !.SwingH = IF on THEN @ ELSE TRUE]

Voltas_setSwingH(a, on) ==
    IF a.model = "122LZF" THEN a
                          ELSE Voltas_setSwingHChange([a EXCEPT !.SwingH = on], TRUE)

Voltas_setModel(a, model) ==
    IF model = "122LZF" THEN Voltas_setSwingHChange([a EXCEPT !.model = model], FALSE)
                        ELSE [a EXCEPT !.model = "Unknown"]

(* An unknown speed is the automatic one. *)
Voltas_setFan(a, fan) ==
    LET f == IF fan \in Voltas_Fans THEN fan ELSE "Auto" IN
    [a EXCEPT !.Fan = IF f = "Auto" /\ a.Mode = "Fan" THEN "High" ELSE f]

Voltas_InMode(a, mode) ==
    LET b == [a EXCEPT !.Mode = mode] IN
    CASE mode = "Fan" -> Voltas_setFan(b, b.Fan)
      [] mode = "Dry" -> Voltas_setTemp(Voltas_setFan(b, "Low"), 24)
      [] OTHER -> b

Voltas_setMode(a, mode) ==
    LET b == Voltas_InMode(a, IF mode \in Voltas_Modes THEN mode ELSE "Cool") IN
    Voltas_setSleep(Voltas_setTurbo(Voltas_setEcono(b, b.Econo), b.Turbo), b.Sleep)

(* 0x33, 0x28, 0x00, 0x17, 0x3B, 0x3B, 0x3B, 0x11, 0x00. *)
Voltas_stateReset == [model |-> "Unknown", Power |-> FALSE, Mode |-> "Cool",
                      Fan |-> "High", Temp |-> 7, SwingV |-> FALSE, SwingH |-> TRUE,
                      SwingHChange |-> FALSE, Light |-> FALSE, Turbo |-> FALSE,
                      Econo |-> FALSE, Sleep |-> FALSE, On |-> <<0, 1, 59>>,
                      OnEnable |-> FALSE]

(* The afternoon bit is one bit of the hours by twelve. *)
Voltas_setOnTime(a, nr_of_mins) ==
    LET mins == AtMost(nr_of_mins, 23 * 60 + 59)
        hrs == mins \div 60 + 1
    IN [a EXCEPT !.On = <<(hrs \div 12) % 2, hrs % 12, mins % 60>>,
                 !.OnEnable = mins > 0]

(* Zero hours are the largest number when one is taken off: 23 of them. *)
Voltas_getOnTime(a) ==
    LET hrs == 12 * a.On[1] + a.On[2] - 1 IN
    (IF hrs < 0 THEN 23 ELSE AtMost(hrs, 23)) * 60 + a.On[3]

Voltas_convertMode(mode) == IF mode \in {"Heat", "Dry", "Fan"} THEN mode ELSE "Cool"
Voltas_toCommonMode(mode) == mode

Voltas_convertFan(fan) ==
    CASE fan \in {"Min", "Low"} -> "Low" [] fan = "Medium" -> "Med"
      [] fan \in {"High", "Max"} -> "High" [] OTHER -> "Auto"

Voltas_toCommonFanSpeed(fan) ==
    CASE fan = "High" -> "Max" [] fan = "Med" -> "Medium"
      [] fan = "Low" -> "Min" [] OTHER -> "Auto"

(* before: the horizontal swing of the state it was received in. *)
Voltas_toCommon(a, before) ==
    [model |-> a.model, power |-> a.Power, mode |-> Voltas_toCommonMode(a.Mode),
     degrees |-> a.Temp + 16, fan |-> Voltas_toCommonFanSpeed(a.Fan),
     swingv |-> OnOff(a.SwingV),
     swingh |-> IF a.SwingHChange THEN OnOff(a.SwingH) ELSE before,
     turbo |-> a.Turbo, econo |-> a.Econo, light |-> a.Light,
     sleep |-> a.Sleep]

Voltas_voltas(w) ==
    LET moded == Voltas_setMode(Voltas_setPower(Voltas_setModel(Voltas_stateReset, w.model),
                                                w.power),
                                Voltas_convertMode(w.mode))
        swung == Voltas_setSwingH(
                   Voltas_setSwingV(Voltas_setFan(Voltas_setTemp(moded, w.degrees),
                                                  Voltas_convertFan(w.fan)), w.swingv # "Off"),
                   w.swingh # "Off")
    IN Voltas_setSleep(Voltas_setLight(Voltas_setEcono(Voltas_setTurbo(swung, w.turbo),
                                                       w.econo), w.light),
                       w.sleep)

Voltas_Wishes == [model : Voltas_Models, power : BOOLEAN, mode : opmode_t,
                  degrees : {15, 22, 31}, fan : {"Auto", "Medium"},
                  swingv : {"Off", "Low"}, swingh : {"Off", "Left"},
                  turbo : BOOLEAN, econo : {FALSE}, light : {TRUE}, sleep : BOOLEAN]

Voltas_Init == ac \in {Voltas_stateReset} \cup {Voltas_voltas(w) : w \in Voltas_Wishes}

Voltas_Next ==
    \/ \E m \in Voltas_Models : ac' = Voltas_setModel(ac, m)
    \/ ac' = Voltas_setPower(ac, TRUE)
    \/ \E m \in Voltas_Modes \cup {"?"} : ac' = Voltas_setMode(ac, m)
    \/ ac' = Voltas_setTemp(ac, 31)
    \/ \E f \in {"Auto", "Low", "?"} : ac' = Voltas_setFan(ac, f)
    \/ ac' = Voltas_setSwingV(ac, FALSE)
    \/ \E on \in BOOLEAN : ac' = Voltas_setSwingH(ac, on)
    \/ \E on \in BOOLEAN : ac' = Voltas_setTurbo(ac, on)
    \/ \E on \in BOOLEAN : ac' = Voltas_setEcono(ac, on)
    \/ ac' = Voltas_setSleep(ac, TRUE)
    \/ ac' = Voltas_setLight(ac, TRUE)
    \/ ac' = Voltas_setOnTime(ac, 25 * 60)

Voltas_TypeOK == ac \in Voltas_Object

(* Nothing of Cool is left in another mode, Fan has a speed, and a model   *)
(* that has no horizontal swing says so; every time of a day is told       *)
(* through the bit that does not hold 24 hours.                            *)
Voltas_Rules ==
    /\ ac.Mode # "Cool" => ~ac.Turbo /\ ~ac.Econo /\ ~ac.Sleep
    /\ ac.Mode = "Fan" => ac.Fan # "Auto"
    /\ ac.model = "122LZF" => ~ac.SwingHChange
    /\ \A n \in {0, 59, 659, 660, 719, 720, 23 * 60, 23 * 60 + 59} :
         Voltas_getOnTime(Voltas_setOnTime(ac, n)) = n

(* A state that was read is sent as it was read; a swing that the message  *)
(* leaves alone is what it was before.                                     *)
Voltas_Rereads ==
    \A before \in {"Off", "Auto"} :
      LET read == Voltas_toCommon(ac, before) IN
      SameState(read, Voltas_toCommon(Voltas_voltas(read), before), {})

-----------------------------------------------------------------------------
(***************************************************************************)
(* ir_Whirlpool.h, ir_Whirlpool.cpp: power is a toggle, Super takes mode,  *)
(* fan and temperature with it, and almost every setter ends it.           *)
(***************************************************************************)
Whirlpool_Models == {"DG11J13A", "DG11J191"}
Whirlpool_Modes == {"Heat", "Auto", "Cool", "Dry", "Fan"}
Whirlpool_Fans == {"Auto", "High", "Medium", "Low"}
Whirlpool_Commands == {"Light", "Power", "Temp", "Sleep", "Super", "OnTimer", "Mode",
                       "Swing", "FanSpeed", "6thSense", "OffTimer"}
Whirlpool_MinTemp == 18
Whirlpool_MaxTemp == 32
Whirlpool_AutoTemp == 23

Whirlpool_Object == [model : Whirlpool_Models, Power : BOOLEAN, Sleep : BOOLEAN,
                     Fan : Whirlpool_Fans,
                     Swing : BOOLEAN, Mode : Whirlpool_Modes, Temp : 0..14, desiredtemp : 0..40,
                     Super : BOOLEAN, Light : BOOLEAN, Cmd : Whirlpool_Commands,
                     OffTimer : 0..24 * 60 - 1, OffTimerEnabled : BOOLEAN]

Whirlpool_getTempOffset(a) == IF a.model = "DG11J191" THEN -2 ELSE 0

(* _setTemp, within the range of the model. *)
Whirlpool_KeepTemp(a, temp, remember) ==
    LET low == Whirlpool_MinTemp + Whirlpool_getTempOffset(a) IN
    [a EXCEPT !.desiredtemp = IF remember THEN temp ELSE @,
              !.Temp = Clamp(temp, low, Whirlpool_MaxTemp + Whirlpool_getTempOffset(a)) - low]

Whirlpool_getTemp(a) == a.Temp + Whirlpool_MinTemp + Whirlpool_getTempOffset(a)

Whirlpool_stateReset == [model |-> "DG11J13A", Power |-> FALSE, Sleep |-> FALSE,
                         Fan |-> "Auto", Swing |-> FALSE, Mode |-> "Heat",
                         Temp |-> Whirlpool_AutoTemp - Whirlpool_MinTemp, desiredtemp |-> Whirlpool_AutoTemp,
                         Super |-> FALSE, Light |-> TRUE, Cmd |-> "Light",
                         OffTimer |-> 0, OffTimerEnabled |-> FALSE]

Whirlpool_setModel(a, model) == Whirlpool_KeepTemp([a EXCEPT !.model = model], a.desiredtemp,
                                                   TRUE)

(* setSuper(false), which the other setters call. *)
Whirlpool_EndSuper(a, command) == [a EXCEPT !.Super = FALSE, !.Cmd = command]

Whirlpool_setTemp(a, temp) == Whirlpool_EndSuper(Whirlpool_KeepTemp(a, temp, TRUE), "Temp")

Whirlpool_setFan(a, speed) ==
    IF speed \in Whirlpool_Fans THEN Whirlpool_EndSuper([a EXCEPT !.Fan = speed],
                                                        "FanSpeed") ELSE a

Whirlpool_setSleep(a, on) ==
    [(IF on THEN Whirlpool_setFan(a, "Low") ELSE a) EXCEPT !.Sleep = on, !.Cmd = "Sleep"]

Whirlpool_setMode(a, mode) ==
    LET b == Whirlpool_EndSuper(a, "Super")
        c == Whirlpool_setSleep(Whirlpool_KeepTemp(Whirlpool_setFan(b, "Auto"),
                                                   Whirlpool_AutoTemp, FALSE), FALSE)
    IN CASE mode = "Auto" -> [c EXCEPT !.Mode = mode, !.Cmd = "6thSense"]
         [] mode \in Whirlpool_Modes \ {"Auto"} ->
              [b EXCEPT !.Mode = mode, !.Cmd = "Mode"]
         [] OTHER -> b

Whirlpool_setSuper(a, on) ==
    LET fast == Whirlpool_setFan(a, "High")
        limit == Whirlpool_getTempOffset(a) + IF a.Mode = "Heat" THEN Whirlpool_MaxTemp ELSE Whirlpool_MinTemp
        set == IF a.Mode = "Heat" THEN Whirlpool_setTemp(fast, limit)
                                  ELSE Whirlpool_setMode(Whirlpool_setTemp(fast, limit), "Cool")
    IN IF on THEN [set EXCEPT !.Super = TRUE, !.Cmd = "Super"]
             ELSE Whirlpool_EndSuper(a, "Super")

Whirlpool_setSwing(a, on) == [a EXCEPT !.Swing = on, !.Cmd = "Swing"]
Whirlpool_setLight(a, on) == [a EXCEPT !.Light = on]
Whirlpool_setPowerToggle(a, on) == Whirlpool_EndSuper([a EXCEPT !.Power = on], "Power")
Whirlpool_setOffTimer(a, mins) == [a EXCEPT !.OffTimer = mins % (24 * 60)]
Whirlpool_enableOffTimer(a, on) ==
    [a EXCEPT !.OffTimerEnabled = on, !.Cmd = "OffTimer"]

Whirlpool_convertMode(mode) == IF mode = "Off" THEN "Cool" ELSE mode
Whirlpool_toCommonMode(mode) == mode

Whirlpool_convertFan(fan) ==
    CASE fan \in {"Min", "Low"} -> "Low" [] fan = "Medium" -> "Medium"
      [] fan \in {"High", "Max"} -> "High" [] OTHER -> "Auto"

Whirlpool_toCommonFanSpeed(fan) ==
    CASE fan = "High" -> "Max" [] fan = "Low" -> "Min" [] OTHER -> fan

(* before: the power of the state the message was received in. *)
Whirlpool_toCommon(a, before) ==
    [model |-> a.model, power |-> before # a.Power,
     mode |-> Whirlpool_toCommonMode(a.Mode), degrees |-> Whirlpool_getTemp(a),
     fan |-> Whirlpool_toCommonFanSpeed(a.Fan), swingv |-> OnOff(a.Swing),
     turbo |-> a.Super, light |-> a.Light, sleep |-> a.Sleep]

(* w.power: the power is to be toggled (IRac::handleToggles).  Power is    *)
(* set last and ends Super, but not what Super has set.                    *)
Whirlpool_whirlpool(w) ==
    LET moded == Whirlpool_setMode(Whirlpool_setModel(Whirlpool_stateReset, w.model),
                                   Whirlpool_convertMode(w.mode))
        swung == Whirlpool_setSwing(Whirlpool_setFan(Whirlpool_setTemp(moded, w.degrees),
                                                     Whirlpool_convertFan(w.fan)),
                                    w.swingv # "Off")
    IN Whirlpool_setPowerToggle(Whirlpool_setSleep(Whirlpool_setLight(Whirlpool_setSuper(swung, w.turbo), w.light),
                                                   w.sleep), w.power)

Whirlpool_Wishes == [model : Whirlpool_Models, power : BOOLEAN, mode : opmode_t,
                     degrees : {15, 33}, fan : {"Low", "Max"},
                     swingv : {"Off", "Low"}, turbo : BOOLEAN, light : {TRUE},
                     sleep : BOOLEAN]

Whirlpool_Init == ac \in {Whirlpool_stateReset} \cup {Whirlpool_whirlpool(w) : w \in Whirlpool_Wishes}

Whirlpool_Next ==
    \/ \E m \in Whirlpool_Models : ac' = Whirlpool_setModel(ac, m)
    \/ \E m \in Whirlpool_Modes \cup {"?"} : ac' = Whirlpool_setMode(ac, m)
    \/ ac' = Whirlpool_setTemp(ac, 31)
    \/ \E f \in {"Medium", "?"} : ac' = Whirlpool_setFan(ac, f)
    \/ \E on \in BOOLEAN : ac' = Whirlpool_setSuper(ac, on)
    \/ \E on \in BOOLEAN : ac' = Whirlpool_setSleep(ac, on)
    \/ ac' = Whirlpool_setSwing(ac, TRUE)
    \/ ac.Swing /\ ac' = Whirlpool_setLight(ac, FALSE)
    \/ \E on \in BOOLEAN : ac' = Whirlpool_setPowerToggle(ac, on)
    \/ ac' = Whirlpool_enableOffTimer(Whirlpool_setOffTimer(ac, 24 * 60 + 1), TRUE)

Whirlpool_TypeOK == ac \in Whirlpool_Object

(* While Super is told it is told with what makes it: the fan and one of   *)
(* the two modes; no setter of one of them leaves the other half.  What is *)
(* asked for through IRac never has it, for the power is set after it.     *)
Whirlpool_Rules ==
    /\ ac.Super => ac.Fan = "High" /\ ac.Mode \in {"Heat", "Cool"}
    /\ ac.Temp + Whirlpool_MinTemp + Whirlpool_getTempOffset(ac)
         \in {Whirlpool_AutoTemp,
              Clamp(ac.desiredtemp, Whirlpool_MinTemp + Whirlpool_getTempOffset(ac),
                                        Whirlpool_MaxTemp + Whirlpool_getTempOffset(ac))}

(* A state that was read, whatever the power was before, is sent as it was *)
(* read, but for Super, whose temperature is the limit of the model as it  *)
(* is now, and for a fan that was set after sleep.                         *)
Whirlpool_Rereads ==
    \A before, unit \in BOOLEAN :
      LET read == Whirlpool_toCommon(ac, before)
          again == Whirlpool_whirlpool([read EXCEPT !.power = read.power # unit])
      IN SameState(read, Whirlpool_toCommon(again, unit),
                   (IF read.turbo THEN {"turbo", "degrees"} ELSE {})
                   \cup (IF read.sleep THEN {"fan"} ELSE {}))

-----------------------------------------------------------------------------
(***************************************************************************)
(* ir_York.h, ir_York.cpp, class IRYorkAc.  Nothing sets its power and its *)
(* swing, and IRac does not ask for it: only setters and toCommon.         *)
(***************************************************************************)
York_Modes == {"Heat", "Cool", "Dry", "Fan", "Auto"}
York_FanLow == 1
York_FanMedium == 2
York_FanHigh == 3
York_FanAuto == 8

York_Object == [Mode : York_Modes, Fan : 0..York_FanAuto, Temp : 18..32, SwingV : BOOLEAN,
                OnTimer : 0..255, OffTimer : 0..255]

(* kYorkKnownGoodState. *)
York_stateReset == [Mode |-> "Heat", Fan |-> York_FanAuto, Temp |-> 24, SwingV |-> FALSE,
                    OnTimer |-> 0, OffTimer |-> 0]

York_setFan(a, speed) ==
    [a EXCEPT !.Fan =
       CASE a.Mode = "Dry" -> York_FanLow
         [] a.Mode = "Fan" -> AtMost(speed, York_FanHigh)
         [] a.Mode = "Auto" -> York_FanAuto
         [] OTHER -> AtMost(speed, York_FanAuto)]

York_setMode(a, mode) ==
    York_setFan([a EXCEPT !.Mode = IF mode \in York_Modes THEN mode ELSE "Auto"], a.Fan)

York_setTemp(a, degrees) == [a EXCEPT !.Temp = Clamp(degrees, 18, 32)]

(* Tens of minutes in eight bits. *)
York_setOnTimer(a, mins) == [a EXCEPT !.OnTimer = (mins \div 10) % 256]
York_setOffTimer(a, mins) == [a EXCEPT !.OffTimer = (mins \div 10) % 256]
York_getOnTimer(a) == 10 * a.OnTimer
York_getOffTimer(a) == 10 * a.OffTimer

York_convertMode(mode) ==
    IF mode \in {"Cool", "Heat", "Dry", "Fan"} THEN mode ELSE "Auto"
York_toCommonMode(mode) == mode

York_convertFan(speed) ==
    CASE speed \in {"Min", "Low"} -> York_FanLow [] speed = "Medium" -> York_FanMedium
      [] speed \in {"High", "Max"} -> York_FanHigh [] OTHER -> York_FanAuto

York_toCommonFanSpeed(speed) ==
    CASE speed = York_FanHigh -> "Max" [] speed = York_FanMedium -> "Medium"
      [] speed = York_FanLow -> "Min" [] OTHER -> "Auto"

(* before: the power of the state it was received in; sleep is a time, and *)
(* zero of it is not the -1 that stands for none.                          *)
York_toCommon(a, before) ==
    [power |-> before, mode |-> York_toCommonMode(a.Mode), degrees |-> a.Temp,
     fan |-> York_toCommonFanSpeed(a.Fan), swingv |-> OnOff(a.SwingV),
     sleep |-> York_getOffTimer(a)]

York_Init == ac = York_stateReset

York_Next ==
    \/ \E m \in York_Modes \cup {"?"} : ac' = York_setMode(ac, m)
    \/ \E f \in {0, York_FanMedium, 5, 9} : ac' = York_setFan(ac, f)
    \/ \E t \in Around(18, 32) : ac' = York_setTemp(ac, t)
    \/ \E mins \in {0, 2550, 2560} : \/ ac' = York_setOnTimer(ac, mins)
                                     \/ ac' = York_setOffTimer(ac, mins)

York_TypeOK == ac \in York_Object

(* Dry has the low speed, Auto the automatic one, Fan a speed of its own;  *)
(* setting again what is told in the state changes none but a speed that   *)
(* has no name; and timers are told up to 2550 minutes, not one step more. *)
York_Rules ==
    /\ ac.Mode = "Dry" => ac.Fan = York_FanLow
    /\ ac.Mode = "Auto" => ac.Fan = York_FanAuto
    /\ ac.Mode = "Fan" => ac.Fan <= York_FanHigh
    /\ LET read == York_toCommon(ac, TRUE) IN
         York_setFan(York_setTemp(York_setMode(ac, York_convertMode(read.mode)), read.degrees),
                     York_convertFan(read.fan)) = ac
         \/ ac.Fan \notin {York_FanLow, York_FanMedium, York_FanHigh, York_FanAuto}
    /\ \A n \in 0..255 : York_getOnTimer(York_setOnTimer(ac, 10 * n)) = 10 * n
    /\ York_getOffTimer(York_setOffTimer(ac, 2560)) = 0

-----------------------------------------------------------------------------
Init ==
    \/ remote = "Vestel" /\ Vestel_Init
    \/ remote = "Voltas" /\ Voltas_Init
    \/ remote = "Whirlpool" /\ Whirlpool_Init
    \/ remote = "York" /\ York_Init

Next ==
    /\ UNCHANGED remote
    /\ \/ remote = "Vestel" /\ Vestel_Next
       \/ remote = "Voltas" /\ Voltas_Next
       \/ remote = "Whirlpool" /\ Whirlpool_Next
       \/ remote = "York" /\ York_Next

Spec == Init /\ [][Next]_<<remote, ac>>

(* The object stays one that its message can carry. *)
TypeOK ==
    CASE remote = "Vestel" -> Vestel_TypeOK
      [] remote = "Voltas" -> Voltas_TypeOK
      [] remote = "Whirlpool" -> Whirlpool_TypeOK
      [] remote = "York" -> York_TypeOK
      [] OTHER -> TRUE

(* What a class says of its settings together, see there. *)
Rules ==
    CASE remote = "Vestel" -> Vestel_Rules
      [] remote = "Voltas" -> Voltas_Rules
      [] remote = "Whirlpool" -> Whirlpool_Rules
      [] remote = "York" -> York_Rules
      [] OTHER -> TRUE

(* A state that was read from a message is sent as it was read, see there. *)
Rereads ==
    CASE remote = "Vestel" -> Vestel_Rereads
      [] remote = "Voltas" -> Voltas_Rereads
      [] remote = "Whirlpool" -> Whirlpool_Rereads
      [] OTHER -> TRUE
=============================================================================
