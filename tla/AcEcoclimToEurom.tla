--------------------------- MODULE AcEcoclimToEurom ---------------------------
(***************************************************************************)
(* The remotes of EcoClim, Electra and Eurom: one object of one of the     *)
(* classes, `Ecoclim', `Electra', `Eurom'. What belongs to a class has its *)
(* name in front, as in Ecoclim_Next; after it come the names of the source.*)
(***************************************************************************)
EXTENDS StdAc

VARIABLES
    remote,    \* the class
    ac         \* its object

-----------------------------------------------------------------------------
(***************************************************************************)
(* ir_Ecoclim.h, ir_Ecoclim.cpp: sleep is a mode, and a timer that is off  *)
(* has a time no clock shows.                                              *)
(***************************************************************************)
Ecoclim_Modes == {"Auto", "Cool", "Dry", "Recycle", "Fan", "Heat", "Sleep"}
Ecoclim_Fans == {"Min", "Med", "Max", "Auto"}
Ecoclim_LastMinute == 24 * 60 - 1

(* A timer is its hours and its tens of minutes. *)
Ecoclim_Timer == (0..31) \X (0..7)
Ecoclim_Disabled == <<31, 7>>

Ecoclim_Object == [Power : BOOLEAN, Mode : Ecoclim_Modes, Fan : Ecoclim_Fans, Temp : 0..31,
                   SensorTemp : 0..31, Clock : 0..Ecoclim_LastMinute, On : Ecoclim_Timer, Off : Ecoclim_Timer]

(* 0x11063000FFFF02. *)
Ecoclim_stateReset == [Power |-> FALSE, Mode |-> "Auto", Fan |-> "Auto", Temp |-> 6,
                       SensorTemp |-> 17, Clock |-> 0, On |-> Ecoclim_Disabled,
                       Off |-> Ecoclim_Disabled]

Ecoclim_setPower(a, on) == [a EXCEPT !.Power = on]
Ecoclim_setTemp(a, celsius) == [a EXCEPT !.Temp = Clamp(celsius, 5, 36) - 5]
Ecoclim_setSensorTemp(a, celsius) == [a EXCEPT !.SensorTemp = Clamp(celsius, 5, 36) - 5]
Ecoclim_setFan(a, speed) == [a EXCEPT !.Fan = IF speed \in Ecoclim_Fans THEN speed ELSE "Auto"]
Ecoclim_setMode(a, mode) == [a EXCEPT !.Mode = IF mode \in Ecoclim_Modes THEN mode ELSE "Auto"]
Ecoclim_setClock(a, mins) == [a EXCEPT !.Clock = AtMost(mins, Ecoclim_LastMinute)]

Ecoclim_Split(mins) == <<mins \div 60, (mins % 60) \div 10>>

Ecoclim_setOnTimer(a, mins) ==
    [a EXCEPT !.On = IF mins <= Ecoclim_LastMinute THEN Ecoclim_Split(mins) ELSE @]
Ecoclim_setOffTimer(a, mins) ==
    [a EXCEPT !.Off = IF mins <= Ecoclim_LastMinute THEN Ecoclim_Split(mins) ELSE @]
Ecoclim_disableOnTimer(a) == [a EXCEPT !.On = Ecoclim_Disabled]
Ecoclim_disableOffTimer(a) == [a EXCEPT !.Off = Ecoclim_Disabled]

Ecoclim_convertMode(mode) == IF mode = "Off" THEN "Auto" ELSE mode

(* Anything else is kCoolixFanAuto, a constant of another remote; setFan()  *)
(* takes it for its own Auto, as every number above that.                  *)
Ecoclim_convertFan(fan) ==
    CASE fan \in {"Min", "Low"} -> "Min" [] fan = "Medium" -> "Med"
      [] fan \in {"High", "Max"} -> "Max" [] OTHER -> "?"

Ecoclim_toCommonFanSpeed(fan) == IF fan = "Med" THEN "Medium" ELSE fan

Ecoclim_toCommonMode(mode) == IF mode \in {"Recycle", "Sleep"} THEN "Auto" ELSE mode

Ecoclim_NoTemp == -100
Ecoclim_NoClock == -1

Ecoclim_toCommon(a) ==
    [power |-> a.Power, mode |-> Ecoclim_toCommonMode(a.Mode), degrees |-> a.Temp + 5,
     sensor |-> a.SensorTemp + 5, fan |-> Ecoclim_toCommonFanSpeed(a.Fan),
     sleep |-> a.Mode = "Sleep", clock |-> a.Clock]

Ecoclim_ecoclim(w) ==
    LET basic == Ecoclim_setFan(Ecoclim_setTemp(Ecoclim_setMode(Ecoclim_setPower(Ecoclim_stateReset, w.power),
                                                                IF w.sleep THEN "Sleep"
                                                                           ELSE Ecoclim_convertMode(w.mode)),
                                                w.degrees),
                                Ecoclim_convertFan(w.fan))
        felt == Ecoclim_setSensorTemp(basic, IF w.sensor = Ecoclim_NoTemp THEN w.degrees
                                                                          ELSE w.sensor)
    IN IF w.clock = Ecoclim_NoClock THEN felt ELSE Ecoclim_setClock(felt, w.clock)

Ecoclim_Wishes == [power : BOOLEAN, mode : opmode_t, degrees : {4, 20, 37},
                   sensor : {Ecoclim_NoTemp, 4, 40}, fan : {"Auto", "Min", "Medium", "High"},
                   sleep : BOOLEAN, clock : {Ecoclim_NoClock, 61, 2000}]

Ecoclim_Init == ac \in {Ecoclim_stateReset} \cup {Ecoclim_ecoclim(w) : w \in Ecoclim_Wishes}

Ecoclim_Next ==
    \/ \E on \in BOOLEAN : ac' = Ecoclim_setPower(ac, on)
    \/ \E m \in Ecoclim_Modes \cup {"?"} : ac' = Ecoclim_setMode(ac, m)
    \/ \E f \in {"Max", "?"} : ac' = Ecoclim_setFan(ac, f)
    \/ \E t \in {4, 20} : ac' = Ecoclim_setTemp(ac, t)
    \/ \E t \in {4, 40} : ac' = Ecoclim_setSensorTemp(ac, t)
    \/ \E n \in {61} : ac' = Ecoclim_setClock(ac, n)
    \/ \E n \in {Ecoclim_LastMinute, Ecoclim_LastMinute + 1} : ac' = Ecoclim_setOnTimer(ac, n)
    \/ \E n \in {Ecoclim_LastMinute, Ecoclim_LastMinute + 1} : ac' = Ecoclim_setOffTimer(ac, n)
    \/ ac' = Ecoclim_disableOnTimer(ac)
    \/ ac' = Ecoclim_disableOffTimer(ac)

Ecoclim_TypeOK == ac \in Ecoclim_Object

(* A state that was read is sent as it was read, also when it is sleeping. *)
Ecoclim_Rereads == SameState(Ecoclim_toCommon(ac),
                             Ecoclim_toCommon(Ecoclim_ecoclim(Ecoclim_toCommon(ac))), {})

-----------------------------------------------------------------------------
(***************************************************************************)
(* ir_Electra.h, ir_Electra.cpp: the room's temperature is in the message  *)
(* with an offset that also says whether there is one.                     *)
(***************************************************************************)
Electra_Modes == {"Auto", "Cool", "Dry", "Heat", "Fan"}
Electra_Fans == {"Auto", "Low", "Med", "High"}
Electra_SensorDelta == 74
Electra_SensorMax == 50

(* Fan is None in a new object: a code that is none of the four. *)
Electra_Object == [Power : BOOLEAN, Mode : Electra_Modes, Temp : 0..24,
                   Fan : Electra_Fans \cup {"None"}, SwingV : BOOLEAN, SwingH : BOOLEAN,
                   Turbo : BOOLEAN, Quiet : BOOLEAN, Clean : BOOLEAN,
                   LightToggle : BOOLEAN, IFeel : BOOLEAN, SensorTemp : 0..255]

(* All zero, which for the swings means on. *)
Electra_stateReset == [Power |-> FALSE, Mode |-> "Auto", Temp |-> 0, Fan |-> "None",
                       SwingV |-> TRUE, SwingH |-> TRUE, Turbo |-> FALSE,
                       Quiet |-> FALSE, Clean |-> FALSE, LightToggle |-> FALSE,
                       IFeel |-> FALSE, SensorTemp |-> 0]

Electra_setPower(a, on) == [a EXCEPT !.Power = on]
Electra_setMode(a, mode) == [a EXCEPT !.Mode = IF mode \in Electra_Modes THEN mode ELSE "Auto"]
Electra_setTemp(a, temp) == [a EXCEPT !.Temp = Clamp(temp, 16, 32) - 8]
Electra_setFan(a, speed) == [a EXCEPT !.Fan = IF speed \in Electra_Fans THEN speed ELSE "Auto"]
Electra_setSwingV(a, on) == [a EXCEPT !.SwingV = on]
Electra_setSwingH(a, on) == [a EXCEPT !.SwingH = on]
Electra_setQuiet(a, on) == [a EXCEPT !.Quiet = on]
Electra_setTurbo(a, on) == [a EXCEPT !.Turbo = on]
Electra_setClean(a, on) == [a EXCEPT !.Clean = on]
Electra_setLightToggle(a, on) == [a EXCEPT !.LightToggle = on]

Electra_setSensorTemp(a, temp) ==
    [a EXCEPT !.SensorTemp = Clamp(temp, 0, Electra_SensorMax) + Electra_SensorDelta]

Electra_getSensorTemp(a) == AtLeast(Electra_SensorDelta, a.SensorTemp) - Electra_SensorDelta

Electra_setIFeel(a, on) ==
    IF on THEN Electra_setSensorTemp([a EXCEPT !.IFeel = TRUE], Electra_getSensorTemp(a))
          ELSE [a EXCEPT !.IFeel = FALSE, !.SensorTemp = 0]

Electra_convertMode(mode) == IF mode = "Off" THEN "Auto" ELSE mode

Electra_convertFan(fan) ==
    CASE fan \in {"Min", "Low"} -> "Low" [] fan = "Medium" -> "Med"
      [] fan \in {"High", "Max"} -> "High" [] OTHER -> "Auto"

Electra_toCommonFanSpeed(fan) ==
    CASE fan = "High" -> "Max" [] fan = "Med" -> "Medium"
      [] fan = "Low" -> "Min" [] OTHER -> "Auto"

Electra_NoTemp == -100

Electra_toCommon(a) ==
    [power |-> a.Power, mode |-> a.Mode, degrees |-> a.Temp + 8,
     sensor |-> Electra_getSensorTemp(a), fan |-> Electra_toCommonFanSpeed(a.Fan),
     swingv |-> OnOff(a.SwingV), swingh |-> OnOff(a.SwingH),
     iFeel |-> a.IFeel, quiet |-> a.Quiet, turbo |-> a.Turbo,
     light |-> a.LightToggle, clean |-> a.Clean]

Electra_electra(w) ==
    LET basic == Electra_setTemp(Electra_setMode(Electra_setPower(Electra_stateReset, w.power),
                                                 Electra_convertMode(w.mode)),
                                 w.degrees)
        felt == IF w.sensor = Electra_NoTemp THEN basic
                                             ELSE Electra_setSensorTemp(basic, w.sensor)
        airy == Electra_setSwingH(Electra_setSwingV(Electra_setFan(felt, Electra_convertFan(w.fan)),
                                                    w.swingv # "Off"),
                                  w.swingh # "Off")
    IN Electra_setIFeel(Electra_setClean(Electra_setLightToggle(Electra_setTurbo(Electra_setQuiet(airy, w.quiet),
                                                                                 w.turbo),
                                                                w.light),
                                         w.clean),
                        w.iFeel)

(* Settings that touch no other are turned on together. *)
Electra_Wishes ==
    {w \in [power : BOOLEAN, mode : opmode_t, degrees : {15, 24, 33},
            sensor : {Electra_NoTemp, 0, 20, 51}, fan : fanspeed_t,
            swingv : {"Off", "Low"}, swingh : {"Off", "Auto"},
            iFeel : BOOLEAN, quiet : BOOLEAN, turbo : BOOLEAN,
            light : BOOLEAN, clean : BOOLEAN] :
       /\ w.light = w.clean /\ w.quiet = w.turbo /\ w.light = w.quiet
       /\ (w.swingv = "Off") = (w.swingh = "Off")}

Electra_Init == ac \in {Electra_stateReset} \cup {Electra_electra(w) : w \in Electra_Wishes}

Electra_Next ==
    \/ \E on \in BOOLEAN : ac' = Electra_setPower(ac, on)
    \/ \E m \in Electra_Modes \cup {"?"} : ac' = Electra_setMode(ac, m)
    \/ \E t \in {15, 24, 33} : ac' = Electra_setTemp(ac, t)
    \/ \E t \in {0, 20, 51} : ac' = Electra_setSensorTemp(ac, t)
    \/ \E on \in BOOLEAN : ac' = Electra_setIFeel(ac, on)
    \/ \E f \in Electra_Fans \cup {"?"} : ac' = Electra_setFan(ac, f)

Electra_TypeOK == ac \in Electra_Object

(* "Make sure there is a reasonable value in SensorTemp" (ir_Electra.cpp:  *)
(* 334): while the unit is to feel at the remote there is a temperature.   *)
Electra_Rules == ac.IFeel => ac.SensorTemp \in Electra_SensorDelta..(Electra_SensorDelta + Electra_SensorMax)

(* A state that was read is sent as it was read; but a sensor's report     *)
(* without iFeel is not repeated, and a new object has no temperature yet. *)
Electra_Rereads ==
    SameState(Electra_toCommon(ac), Electra_toCommon(Electra_electra(Electra_toCommon(ac))),
              (IF ac.IFeel THEN {} ELSE {"sensor"})
                \cup (IF ac.Temp = 0 THEN {"degrees"} ELSE {}))

-----------------------------------------------------------------------------
(***************************************************************************)
(* ir_Eurom.h, ir_Eurom.cpp, class IREuromAc: mode, temperature, sleep and *)
(* on timer share bytes of the message, so that the object keeps them a    *)
(* second time (state_mode_ and so on); a message that is read into it     *)
(* replaces the bytes only.                                                *)
(***************************************************************************)
Eurom_Modes == {"Cool", "Dehumidify", "Ventilate", "Heat"}
Eurom_Tempered == {"Cool", "Heat"}
Eurom_Fans == {"Low", "Med", "High"}
Eurom_MinTempC == 16
Eurom_MaxTempC == 32
Eurom_MinTempF == 61
Eurom_MaxTempF == 90
Eurom_TimerMax == 24

(* Mode_Celsius is a mode and, in a mode that has one, a temperature.      *)
(* Fahrenheit is 0 when the unit is Celsius.                               *)
Eurom_Byte2 == Eurom_Modes \X (0..Eurom_MaxTempC)
Eurom_Message == [Mode_Celsius : Eurom_Byte2, Power : BOOLEAN, Swing : BOOLEAN,
                  Fahrenheit : {0} \cup Eurom_MinTempF..Eurom_MaxTempF,
                  Sleep_OnTimer : BOOLEAN \X (0..Eurom_TimerMax), OffTimer : 0..Eurom_TimerMax,
                  OffTimerEnabled : BOOLEAN, Fan : Eurom_Fans]
Eurom_Object == [message : Eurom_Message, mode : Eurom_Modes,
                 celsius : Eurom_MinTempC..Eurom_MaxTempC,
                 sleep : BOOLEAN, on_timer : 0..Eurom_TimerMax]

Eurom_getModeCelsiusByte(mode, celsius) == <<mode, AtMost(celsius, Eurom_MaxTempC)>>
Eurom_getSleepOnTimerByte(sleep, hours) == <<sleep, hours>>

Eurom_setPower(a, on) == [a EXCEPT !.message.Power = on]
Eurom_setSwing(a, on) == [a EXCEPT !.message.Swing = on]
Eurom_setFan(a, fan) ==
    [a EXCEPT !.message.Fan = IF fan \in Eurom_Fans THEN fan ELSE @]

Eurom_setMode(a, mode) ==
    CASE mode \in Eurom_Tempered ->
           [a EXCEPT !.mode = mode,
                     !.message.Mode_Celsius = Eurom_getModeCelsiusByte(mode, a.celsius)]
      [] mode \in Eurom_Modes -> [a EXCEPT !.mode = mode,
                                           !.message.Mode_Celsius = <<mode, 0>>]
      [] OTHER -> a

(* roundf of (F - 32) / 1.8. *)
Eurom_Rounded(f) == (10 * (f - 32) + 9) \div 18

Eurom_setTemp(a, degrees, fahrenheit) ==
    LET f == Clamp(degrees, Eurom_MinTempF, Eurom_MaxTempF)
        c == Clamp(IF fahrenheit THEN Eurom_Rounded(f) ELSE degrees,
                   Eurom_MinTempC, Eurom_MaxTempC)
    IN IF a.mode \notin Eurom_Tempered THEN a
       ELSE [a EXCEPT !.message.Fahrenheit = IF fahrenheit THEN f ELSE 0,
                      !.celsius = c,
                      !.message.Mode_Celsius = Eurom_getModeCelsiusByte(a.mode, c)]

Eurom_getTemp(a) ==
    CASE a.mode \notin Eurom_Tempered -> 0
      [] a.message.Fahrenheit # 0 -> a.message.Fahrenheit
      [] OTHER -> a.celsius

Eurom_setSleep(a, on) ==
    [a EXCEPT !.sleep = on,
              !.message.Sleep_OnTimer = Eurom_getSleepOnTimerByte(on, a.on_timer)]

Eurom_setOnTimer(a, duration) ==
    LET hours == AtMost(duration, Eurom_TimerMax) IN
    [a EXCEPT !.on_timer = hours,
              !.message.Sleep_OnTimer = Eurom_getSleepOnTimerByte(a.sleep, hours)]

Eurom_setOffTimer(a, duration) ==
    LET hours == AtMost(duration, Eurom_TimerMax) IN
    [a EXCEPT !.message.OffTimer = hours,
              !.message.OffTimerEnabled = hours > 0]

Eurom_setRaw(a, message) == [a EXCEPT !.message = message]

Eurom_stateReset ==
    [message |-> [Mode_Celsius |-> <<"Cool", 23>>, Power |-> FALSE,
                  Swing |-> FALSE, Fahrenheit |-> 0,
                  Sleep_OnTimer |-> <<FALSE, 0>>, OffTimer |-> 0,
                  OffTimerEnabled |-> FALSE, Fan |-> "Low"],
     mode |-> "Cool", celsius |-> 23, sleep |-> FALSE, on_timer |-> 0]

Eurom_convertMode(mode) ==
    CASE mode \in Eurom_Tempered -> mode [] mode = "Dry" -> "Dehumidify"
      [] OTHER -> "Ventilate"

Eurom_convertFan(fan) ==
    CASE fan \in {"High", "Max"} -> "High" [] fan = "Medium" -> "Med"
      [] OTHER -> "Low"

Eurom_convertSwing(swing) == swing = "Auto"

Eurom_toCommonMode(mode) ==
    CASE mode \in Eurom_Tempered -> mode [] mode = "Dehumidify" -> "Dry"
      [] OTHER -> "Fan"

Eurom_toCommonFanSpeed(fan) ==
    CASE fan = "High" -> "Max" [] fan = "Med" -> "Medium" [] OTHER -> "Min"

Eurom_toCommonSwing(swing) == OnOff(swing)

(* sleep, a truth value here, is a number in the state: 1 or 0. *)
Eurom_toCommon(a) ==
    [power |-> a.message.Power, mode |-> Eurom_toCommonMode(a.mode),
     degrees |-> Eurom_getTemp(a), celsius |-> a.message.Fahrenheit = 0,
     fan |-> Eurom_toCommonFanSpeed(a.message.Fan),
     swingv |-> Eurom_toCommonSwing(a.message.Swing),
     sleep |-> IF a.sleep THEN 1 ELSE 0]

(* ... and a number, of which -1 stands for no sleep, a truth value here.  *)
Eurom_eurom(w) ==
    LET cooled == Eurom_setTemp(Eurom_setMode(Eurom_setPower(Eurom_stateReset, w.power),
                                              Eurom_convertMode(w.mode)), w.degrees, ~w.celsius)
    IN Eurom_setSleep(Eurom_setSwing(Eurom_setFan(cooled, Eurom_convertFan(w.fan)),
                                     Eurom_convertSwing(w.swingv)), w.sleep # 0)

Eurom_Wishes == [power : BOOLEAN, mode : opmode_t, degrees : Around(16, 32),
                 celsius : {TRUE}, fan : {"Auto", "Medium", "Max"},
                 swingv : {"Off", "Auto", "Low"}, sleep : {-1, 0}]
                \cup [power : {TRUE}, mode : {"Cool", "Dry"}, degrees : {60, 77, 91},
                      celsius : {FALSE}, fan : {"Auto"}, swingv : {"Auto"},
                      sleep : {-1}]

Eurom_Init == ac \in {Eurom_stateReset} \cup {Eurom_eurom(w) : w \in Eurom_Wishes}

Eurom_Next ==
    \/ \E on \in BOOLEAN : ac' = Eurom_setPower(ac, on) \/ ac' = Eurom_setSleep(ac, on)
    \/ ac' = Eurom_setSwing(ac, TRUE)
    \/ ac' = Eurom_setFan(ac, "?")
    \/ \E m \in Eurom_Modes : ac' = Eurom_setMode(ac, m)
    \/ ac' = Eurom_setTemp(ac, 33, FALSE) \/ ac' = Eurom_setTemp(ac, 77, TRUE)
    \/ ac' = Eurom_setOnTimer(ac, 25) \/ ac' = Eurom_setOffTimer(ac, 24)

Eurom_TypeOK == ac \in Eurom_Object

(* What is kept beside the message is what the message says, as long as it *)
(* is made by the setters; both units agree in a mode with a temperature   *)
(* to the degree; and IRac's function takes no sleep, -1, for sleep.       *)
Eurom_Rules ==
    /\ ac.message.Mode_Celsius =
         IF ac.mode \in Eurom_Tempered THEN <<ac.mode, ac.celsius>> ELSE <<ac.mode, 0>>
    /\ ac.message.Sleep_OnTimer = <<ac.sleep, ac.on_timer>>
    /\ ac.message.Fahrenheit # 0 =>
         Clamp(Eurom_Rounded(ac.message.Fahrenheit), Eurom_MinTempC,
               Eurom_MaxTempC) = ac.celsius
    /\ \A n \in {-1, 1} : Eurom_eurom([Eurom_toCommon(ac) EXCEPT !.sleep = n]).sleep

(* A state that was read is sent as it was read, but for the unit of a     *)
(* temperature in a mode that has none.  That is so for the object the     *)
(* state was made in: read into a new one, a message is taken to say Cool  *)
(* at 23 degrees without sleep.                                            *)
Eurom_Rereads ==
    LET read == Eurom_toCommon(ac)
        other == Eurom_toCommon(Eurom_setRaw(Eurom_stateReset, ac.message))
    IN /\ SameState(read, Eurom_toCommon(Eurom_eurom(read)),
                    IF ac.mode \in Eurom_Tempered THEN {} ELSE {"celsius"})
       /\ other.mode = "Cool" /\ other.sleep = 0
       /\ other.celsius => other.degrees = 23

(* Switching off and on tells nothing else. *)
Eurom_PowerCycles == Eurom_setPower(Eurom_setPower(ac, FALSE), TRUE) = Eurom_setPower(ac, TRUE)

-----------------------------------------------------------------------------
Init ==
    \/ remote = "Ecoclim" /\ Ecoclim_Init
    \/ remote = "Electra" /\ Electra_Init
    \/ remote = "Eurom" /\ Eurom_Init

Next ==
    /\ UNCHANGED remote
    /\ \/ remote = "Ecoclim" /\ Ecoclim_Next
       \/ remote = "Electra" /\ Electra_Next
       \/ remote = "Eurom" /\ Eurom_Next

Spec == Init /\ [][Next]_<<remote, ac>>

(* The object stays one that its message can carry. *)
TypeOK ==
    CASE remote = "Ecoclim" -> Ecoclim_TypeOK
      [] remote = "Electra" -> Electra_TypeOK
      [] remote = "Eurom" -> Eurom_TypeOK
      [] OTHER -> TRUE

(* What a class says of its settings together, see there. *)
Rules ==
    CASE remote = "Electra" -> Electra_Rules
      [] remote = "Eurom" -> Eurom_Rules
      [] OTHER -> TRUE

(* A state that was read from a message is sent as it was read, see there. *)
Rereads ==
    CASE remote = "Ecoclim" -> Ecoclim_Rereads
      [] remote = "Electra" -> Electra_Rereads
      [] remote = "Eurom" -> Eurom_Rereads
      [] OTHER -> TRUE

(* Off and on again is on as before, see there. *)
PowerCycles ==
    CASE remote = "Eurom" -> Eurom_PowerCycles
      [] OTHER -> TRUE
=============================================================================
