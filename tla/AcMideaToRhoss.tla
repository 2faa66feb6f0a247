---------------------------- MODULE AcMideaToRhoss ----------------------------
(***************************************************************************)
(* The remotes of Midea, Mirage, Neoclima and Rhoss: one object of one of  *)
(* the classes, `Midea', `Mirage', `Neoclima', `Rhoss'. What belongs to a  *)
(* class has its name in front, as in Midea_Next; after it come the names of*)
(* the source.                                                             *)
(***************************************************************************)
EXTENDS StdAc

VARIABLES
    remote,    \* the class
    ac         \* its object

-----------------------------------------------------------------------------
(***************************************************************************)
(* ir_Midea.h, ir_Midea.cpp: the message has its temperature in either     *)
(* unit; a byte is shared by the sensor's temperature and the on timer; a  *)
(* setting that is toggled is a message of its own, sent after the state.  *)
(***************************************************************************)
Midea_Modes == {"Cool", "Dry", "Auto", "Heat", "Fan"}
Midea_Fans == {"Auto", "Low", "Med", "High"}
Midea_Toggles == {"SwingV", "Econo", "Turbo", "Light", "Clean", "8CHeat"}
Midea_SensorTempOnTimerOff == 127
Midea_TimerOff == 63

Midea_Object == [Temp : 0..24, useFahrenheit : BOOLEAN, Mode : Midea_Modes, Fan : Midea_Fans,
                 Sleep : BOOLEAN, Power : BOOLEAN, Type : {"Command", "Follow"},
                 BeepDisable : BOOLEAN, disableSensor : BOOLEAN,
                 SensorTemp : 0..Midea_SensorTempOnTimerOff, OffTimer : 0..Midea_TimerOff,
                 toggle : SUBSET Midea_Toggles, Quiet : BOOLEAN, Quiet_prev : BOOLEAN]

(* 0xA1826FFFFF62. *)
Midea_stateReset ==
    [Temp |-> 15, useFahrenheit |-> TRUE, Mode |-> "Auto", Fan |-> "Auto",
     Sleep |-> FALSE, Power |-> TRUE, Type |-> "Command",
     BeepDisable |-> TRUE, disableSensor |-> TRUE,
     SensorTemp |-> Midea_SensorTempOnTimerOff, OffTimer |-> Midea_TimerOff,
     toggle |-> {}, Quiet |-> FALSE, Quiet_prev |-> FALSE]

(* Conversions, cut off to whole degrees. *)
Midea_celsiusToFahrenheit(c) == (9 * c) \div 5 + 32
Midea_fahrenheitToCelsius(f) == (5 * (f - 32)) \div 9
Midea_Rounded(f) == (10 * (f - 32) + 9) \div 18

Midea_setPower(a, on) == [a EXCEPT !.Power = on]
Midea_setSleep(a, on) == [a EXCEPT !.Sleep = on]
Midea_setMode(a, m) == [a EXCEPT !.Mode = IF m \in Midea_Modes THEN m ELSE "Auto"]
Midea_setFan(a, f) == [a EXCEPT !.Fan = IF f \in Midea_Fans THEN f ELSE "Auto"]

(* A number in the unit asked for, kept in the unit of the message. *)
Midea_setTemp(a, temp, useCelsius) ==
    LET t == IF useCelsius THEN Clamp(temp, 17, 30) ELSE Clamp(temp, 62, 86) IN
    [a EXCEPT !.Temp =
       CASE ~a.useFahrenheit /\ ~useCelsius ->
              AtLeast(Midea_fahrenheitToCelsius(t) - 17, 0)
         [] a.useFahrenheit /\ useCelsius -> Midea_celsiusToFahrenheit(t) - 62
         [] OTHER -> t - IF useCelsius THEN 17 ELSE 62]

Midea_getTemp(a, celsius) ==
    CASE celsius /\ a.useFahrenheit -> Midea_Rounded(a.Temp + 62)
      [] ~celsius /\ ~a.useFahrenheit -> Midea_celsiusToFahrenheit(a.Temp + 17)
      [] OTHER -> a.Temp + IF celsius THEN 17 ELSE 62

(* A mutant of setUseCelsius: the number is kept, not the temperature. *)
Midea_setUseCelsius_Number(a, on) == [a EXCEPT !.useFahrenheit = ~on]

Midea_setUseCelsius(a, on) ==
    IF on = a.useFahrenheit
      THEN Midea_setTemp([a EXCEPT !.useFahrenheit = ~on], Midea_getTemp(a, ~on), ~on)
      ELSE a

Midea_setEnableSensorTemp(a, on) ==
    [a EXCEPT !.disableSensor = ~on,
              !.Type = IF on THEN "Follow" ELSE "Command",
              !.BeepDisable = ~on,
              !.SensorTemp = IF on THEN @ ELSE Midea_SensorTempOnTimerOff]

Midea_setSensorTemp(a, temp, useCelsius) ==
    LET t == IF useCelsius THEN Clamp(temp, 0, 37) ELSE Clamp(temp, 32, 99)
        kept == CASE ~a.useFahrenheit /\ ~useCelsius -> Midea_fahrenheitToCelsius(t)
                  [] a.useFahrenheit /\ useCelsius -> Midea_celsiusToFahrenheit(t) - 32
                  [] OTHER -> t - IF useCelsius THEN 0 ELSE 32
    IN Midea_setEnableSensorTemp([a EXCEPT !.SensorTemp = kept + 1], TRUE)

Midea_HalfHours(mins) == AtMost(24 * 60, mins) \div 30

Midea_isOnTimerEnabled(a) ==
    a.Type = "Command" /\ a.SensorTemp # Midea_SensorTempOnTimerOff
Midea_getOnTimer(a) == (a.SensorTemp \div 2) * 30 + 30

Midea_setOnTimer(a, mins) ==
    [Midea_setEnableSensorTemp(a, FALSE) EXCEPT !.SensorTemp =
       IF Midea_HalfHours(mins) > 0 THEN 2 * (Midea_HalfHours(mins) - 1) + 1
                                    ELSE Midea_SensorTempOnTimerOff]

Midea_isOffTimerEnabled(a) == a.OffTimer # Midea_TimerOff
Midea_getOffTimer(a) == a.OffTimer * 30 + 30

Midea_setOffTimer(a, mins) ==
    [a EXCEPT !.OffTimer = IF Midea_HalfHours(mins) > 0 THEN Midea_HalfHours(mins) - 1
                                                        ELSE Midea_TimerOff]

(* Clean is for Cool, Dry and Auto, 8C heat for Heat. *)
Midea_Allowed(a, t) == CASE t = "Clean" -> a.Mode \in {"Cool", "Dry", "Auto"}
                         [] t = "8CHeat" -> a.Mode = "Heat"
                         [] OTHER -> TRUE

(* setSwingVToggle, setEconoToggle, ..., set8CHeatToggle. *)
Midea_setToggle(a, t, on) ==
    [a EXCEPT !.toggle = IF on /\ Midea_Allowed(a, t) THEN @ \cup {t} ELSE @ \ {t}]

Midea_setQuiet(a, on, prev) == [a EXCEPT !.Quiet = on, !.Quiet_prev = prev]

(* The messages that follow the state, and the object after them: what the *)
(* mode does not allow is neither sent nor forgotten.                      *)
Midea_Sent(a) == {t \in a.toggle : Midea_Allowed(a, t)}
                 \cup IF a.Quiet # a.Quiet_prev THEN {"Quiet"} ELSE {}

Midea_send(a) == [a EXCEPT !.toggle = @ \ Midea_Sent(a), !.Quiet_prev = a.Quiet]

Midea_convertMode(mode) ==
    IF mode \in {"Cool", "Heat", "Dry", "Fan"} THEN mode ELSE "Auto"

Midea_convertFan(fan) ==
    CASE fan \in {"Min", "Low"} -> "Low" [] fan = "Medium" -> "Med"
      [] fan \in {"High", "Max"} -> "High" [] OTHER -> "Auto"

Midea_toCommonFanSpeed(fan) ==
    CASE fan = "High" -> "Max" [] fan = "Med" -> "Medium"
      [] fan = "Low" -> "Min" [] OTHER -> "Auto"

Midea_toCommon(a) ==
    [power |-> a.Power, mode |-> a.Mode, celsius |-> ~a.useFahrenheit,
     degrees |-> Midea_getTemp(a, ~a.useFahrenheit), sleep |-> a.Sleep,
     fan |-> Midea_toCommonFanSpeed(a.Fan)]

(* w without a sensor's temperature; w.toggle as handleToggles left it. *)
Midea_midea(w, follow, toggle, quiet) ==
    LET moded == Midea_setMode(Midea_setPower(Midea_stateReset, w.power),
                               Midea_convertMode(w.mode))
        warm == Midea_setTemp(Midea_setUseCelsius(moded, w.celsius), w.degrees, w.celsius)
        fanned == Midea_setFan(Midea_setEnableSensorTemp(warm, follow), Midea_convertFan(w.fan))
    IN Midea_setSleep([Midea_setQuiet(fanned, quiet, FALSE)
                         EXCEPT !.toggle = {t \in toggle : Midea_Allowed(fanned, t)}],
                      w.sleep)

Midea_Wishes == [power : BOOLEAN, mode : opmode_t, celsius : BOOLEAN,
                 degrees : {16, 73}, fan : {"Max"},
                 sleep : BOOLEAN]

(* The settings with a value of their own come from IRac: the setters that *)
(* meet one another go on from there.                                      *)
Midea_Init == ac \in {Midea_stateReset}
                \cup {Midea_midea(w, follow, toggle, quiet) :
                        w \in Midea_Wishes, follow \in BOOLEAN,
                        toggle \in {{"Econo", "Clean"}}, quiet \in BOOLEAN}

(* The off timer is not set while a change of quiet waits to be sent, which *)
(* no setter looks at.                                                     *)
Midea_Next ==
    \/ \E on \in BOOLEAN : ac' = Midea_setPower(ac, on)
    \/ \E on \in BOOLEAN : ac' = Midea_setSleep(ac, on)
    \/ \E m \in {"Cool", "Heat", "?"} : ac' = Midea_setMode(ac, m)
    \/ \E f \in {"?"} : ac' = Midea_setFan(ac, f)
    \/ \E t \in {87}, celsius \in BOOLEAN : ac' = Midea_setTemp(ac, t, celsius)
    \/ \E on \in BOOLEAN : ac' = Midea_setUseCelsius(ac, on)
    \/ \E celsius \in BOOLEAN : ac' = Midea_setSensorTemp(ac, 38, celsius)
    \/ \E on \in BOOLEAN : ac' = Midea_setEnableSensorTemp(ac, on)
    \/ \E n \in {29, 24 * 60 + 1} : ac' = Midea_setOnTimer(ac, n)
    \/ /\ ac.Quiet = ac.Quiet_prev
       /\ \E n \in {29, 30} : ac' = Midea_setOffTimer(ac, n)
    \/ \E t \in {"Clean", "8CHeat"}, on \in BOOLEAN : ac' = Midea_setToggle(ac, t, on)
    \/ /\ ac.OffTimer = Midea_TimerOff
       /\ \E on \in BOOLEAN : ac' = Midea_setQuiet(ac, on, ac.Quiet_prev)
    \/ ac' = Midea_send(ac)

Midea_TypeOK == ac \in Midea_Object

(* "Setting it will disable that mode" (ir_Midea.cpp:566): a byte that is  *)
(* read as an on timer never holds the sensor's temperature.  A toggle is  *)
(* told once: a second send has the state alone.  Changing the unit keeps  *)
(* the temperature to one degree below.                                    *)
Midea_Rules ==
    /\ ac.disableSensor = (ac.Type = "Command")
    /\ Midea_isOnTimerEnabled(ac) =>
         ac.SensorTemp % 2 = 1 /\ Midea_getOnTimer(ac) <= 24 * 60
    /\ Midea_Sent(Midea_send(ac)) = {}
    /\ \A on \in BOOLEAN :
         Midea_getTemp(Midea_setUseCelsius(ac, on), TRUE) - Midea_getTemp(ac, TRUE) \in {-1, 0}

(* A state that was read is sent as it was read. *)
Midea_Rereads ==
    SameState(Midea_toCommon(ac),
              Midea_toCommon(Midea_midea(Midea_toCommon(ac), FALSE, {}, FALSE)), {})

-----------------------------------------------------------------------------
(***************************************************************************)
(* ir_Mirage.h, ir_Mirage.cpp, class IRMirageAc: two remotes whose         *)
(* messages are laid out differently.  A field here is that of the model   *)
(* the object stands for; a change of the model makes the message anew     *)
(* from what was read of the old one.                                      *)
(***************************************************************************)
Mirage_Models == {"KKG9AC1", "KKG29AC1"}
Mirage_Modes == {"Heat", "Cool", "Dry", "Recycle", "Fan"}
Mirage_FanAuto == 0
Mirage_FanHigh == 1
Mirage_PowerOff == 95                               \* added to the swing: KKG9AC1
Mirage_SwingVOff == 0
Mirage_SwingVAuto == 13
Mirage_SwingVs == {Mirage_SwingVOff, 3, 5, 7, 9, 11, Mirage_SwingVAuto}
Mirage_SensorTempOffset == 20
Mirage_SensorTempMax == 43
Mirage_LastSecond == 24 * 60 * 60 - 1

Mirage_Object == [model : Mirage_Models, Mode : Mirage_Modes, Temp : 16..32, Fan : 0..3,
                  SwingAndPower : 0..127, Turbo : BOOLEAN, Sleep : BOOLEAN,
                  Light : BOOLEAN, Clock : 0..Mirage_LastSecond,
                  Power : BOOLEAN, SwingV : BOOLEAN, SwingH : BOOLEAN,
                  Quiet : BOOLEAN, CleanToggle : BOOLEAN, Filter : BOOLEAN,
                  IFeel : BOOLEAN, SensorTemp : 0..63, OnTimer : 0..1440,
                  OffTimer : 0..1440]

Mirage_KKG29(a) == a.model = "KKG29AC1"

Mirage_getPower(a) == IF Mirage_KKG29(a) THEN a.Power ELSE a.SwingAndPower < Mirage_PowerOff

(* A mutant of setPower: it adds what is there already. *)
Mirage_setPower_Twice(a, on) ==
    IF Mirage_KKG29(a) THEN [a EXCEPT !.Power = on]
    ELSE [a EXCEPT !.SwingAndPower = IF on THEN @ % Mirage_PowerOff
                                           ELSE (@ + Mirage_PowerOff) % 128]

Mirage_setPower(a, on) ==
    IF Mirage_KKG29(a) THEN [a EXCEPT !.Power = on]
    ELSE [a EXCEPT !.SwingAndPower =
            IF on THEN @ - (IF Mirage_getPower(a) THEN 0 ELSE Mirage_PowerOff)
                  ELSE @ + (IF Mirage_getPower(a) THEN Mirage_PowerOff ELSE 0)]

Mirage_setTurbo(a, on) == [a EXCEPT !.Turbo = on /\ a.Mode = "Cool"]

Mirage_setMode(a, mode) ==
    LET b == [a EXCEPT !.Mode = IF mode \in Mirage_Modes THEN mode ELSE "Cool"] IN
    Mirage_setTurbo(b, b.Turbo)

Mirage_setTemp(a, degrees) == [a EXCEPT !.Temp = Clamp(degrees, 16, 32)]
Mirage_setFan(a, speed) == [a EXCEPT !.Fan = IF speed <= 3 THEN speed ELSE Mirage_FanAuto]
Mirage_setSleep(a, on) == [a EXCEPT !.Sleep = on]
Mirage_setLight(a, on) == [a EXCEPT !.Light = on]

Mirage_setClock(a, seconds) ==
    IF Mirage_KKG29(a) THEN a ELSE [a EXCEPT !.Clock = AtMost(seconds, Mirage_LastSecond)]
Mirage_getClock(a) == IF Mirage_KKG29(a) THEN 0 ELSE a.Clock

Mirage_setSwingV(a, position) ==
    LET p == IF position \in Mirage_SwingVs THEN position ELSE Mirage_SwingVAuto IN
    IF Mirage_KKG29(a) THEN [a EXCEPT !.SwingV = p # Mirage_SwingVOff]
                       ELSE Mirage_setPower([a EXCEPT !.SwingAndPower = p], Mirage_getPower(a))

Mirage_getSwingV(a) ==
    CASE Mirage_KKG29(a) -> IF a.SwingV THEN Mirage_SwingVAuto ELSE Mirage_SwingVOff
      [] Mirage_getPower(a) -> a.SwingAndPower
      [] OTHER -> a.SwingAndPower - Mirage_PowerOff

Mirage_setSwingH(a, on) == [a EXCEPT !.SwingH = IF Mirage_KKG29(a) THEN on ELSE @]
Mirage_setQuiet(a, on) == [a EXCEPT !.Quiet = IF Mirage_KKG29(a) THEN on ELSE @]
Mirage_setCleanToggle(a, on) == [a EXCEPT !.CleanToggle = IF Mirage_KKG29(a) THEN on ELSE @]
Mirage_setFilter(a, on) == [a EXCEPT !.Filter = IF Mirage_KKG29(a) THEN on ELSE @]

Mirage_setSensorTemp(a, degrees) ==
    IF Mirage_KKG29(a)
      THEN [a EXCEPT !.SensorTemp = AtMost(Mirage_SensorTempMax, degrees)
                                    + Mirage_SensorTempOffset]
      ELSE a

(* Sixteen bits without a sign. *)
Mirage_getSensorTemp(a) ==
    IF Mirage_KKG29(a) THEN (a.SensorTemp - Mirage_SensorTempOffset) % 65536 ELSE 0

(* Without a reading the set temperature stands for one, without the       *)
(* offset that readings have.                                              *)
Mirage_setIFeel(a, on) ==
    IF Mirage_KKG29(a)
      THEN [a EXCEPT !.IFeel = on,
                     !.SensorTemp = CASE ~on -> 0 [] @ = 0 -> a.Temp
                                      [] OTHER -> @]
      ELSE a

Mirage_setOnTimer(a, mins) ==
    [a EXCEPT !.OnTimer = IF Mirage_KKG29(a) THEN AtMost(mins, 1440) ELSE @]
Mirage_setOffTimer(a, mins) ==
    [a EXCEPT !.OffTimer = IF Mirage_KKG29(a) THEN AtMost(mins, 1440) ELSE @]
Mirage_getOnTimer(a) == IF Mirage_KKG29(a) THEN a.OnTimer ELSE 0
Mirage_getOffTimer(a) == IF Mirage_KKG29(a) THEN a.OffTimer ELSE 0

Mirage_stateReset ==
    [model |-> "KKG9AC1", Mode |-> "Cool", Temp |-> 16, Fan |-> Mirage_FanAuto,
     SwingAndPower |-> Mirage_SwingVAuto, Turbo |-> FALSE, Sleep |-> FALSE,
     Light |-> FALSE, Clock |-> 0, Power |-> TRUE, SwingV |-> TRUE,
     SwingH |-> FALSE, Quiet |-> FALSE, CleanToggle |-> FALSE,
     Filter |-> FALSE, IFeel |-> FALSE, SensorTemp |-> 0, OnTimer |-> 0,
     OffTimer |-> 0]

(* What a send leaves: clean and light are toggles of one model. *)
Mirage_send(a) ==
           IF Mirage_KKG29(a) THEN Mirage_setLight(Mirage_setCleanToggle(a, FALSE),
                                                   FALSE) ELSE a

Mirage_convertMode(mode) == IF mode \in {"Heat", "Dry", "Fan"} THEN mode ELSE "Cool"
Mirage_toCommonMode(mode) == IF mode \in {"Heat", "Dry", "Fan"} THEN mode ELSE "Cool"

(* The two models have low and medium the other way round. *)
Mirage_Low(model) == IF model = "KKG29AC1" THEN 2 ELSE 3
Mirage_Med(model) == IF model = "KKG29AC1" THEN 3 ELSE 2

Mirage_convertFan(speed, model) ==
    CASE speed \in {"Min", "Low"} -> Mirage_Low(model) [] speed = "Medium" -> Mirage_Med(model)
      [] speed \in {"High", "Max"} -> Mirage_FanHigh [] OTHER -> Mirage_FanAuto

Mirage_toCommonFanSpeed(speed, model) ==
    CASE speed = Mirage_FanHigh -> "High" [] speed = Mirage_Med(model) -> "Medium"
      [] speed = Mirage_Low(model) -> "Low" [] OTHER -> "Auto"

Mirage_convertSwingV(position) ==
    CASE position = "Highest" -> 11 [] position = "High" -> 9
      [] position = "Middle" -> 7 [] position = "Low" -> 5
      [] position = "Lowest" -> 3 [] position = "Off" -> Mirage_SwingVOff
      [] OTHER -> Mirage_SwingVAuto

Mirage_toCommonSwingV(pos) ==
    CASE pos = 11 -> "Highest" [] pos = 9 -> "High" [] pos = 7 -> "Middle"
      [] pos = 5 -> "Low" [] pos = 3 -> "Lowest" [] pos = Mirage_SwingVAuto -> "Auto"
      [] OTHER -> "Off"

Mirage_toCommon(a) ==
    [model |-> a.model, power |-> Mirage_getPower(a), mode |-> Mirage_toCommonMode(a.Mode),
     degrees |-> a.Temp, sensorTemperature |-> Mirage_getSensorTemp(a),
     fan |-> Mirage_toCommonFanSpeed(a.Fan, a.model),
     swingv |-> Mirage_toCommonSwingV(Mirage_getSwingV(a)), swingh |-> OnOff(a.SwingH),
     turbo |-> a.Turbo, light |-> a.Light, clean |-> a.CleanToggle,
     filter |-> a.Filter, sleep |-> a.Sleep, quiet |-> a.Quiet,
     clock |-> Mirage_getClock(a) \div 60, iFeel |-> a.IFeel]

(* A reading that does not fit eight bits is a float cast to them, which   *)
(* is undefined: `cast` is what comes of it.                               *)
Mirage_fromCommon(s, cast) ==
    LET cooled == Mirage_setFan(Mirage_setMode(Mirage_setTemp(Mirage_setPower([Mirage_stateReset EXCEPT
                                                                                 !.model = s.model],
                                                                              s.power), s.degrees),
                                               Mirage_convertMode(s.mode)),
                                Mirage_convertFan(s.fan, s.model))
        lit == Mirage_setLight(Mirage_setSleep(Mirage_setTurbo(cooled, s.turbo), s.sleep),
                               s.light)
        swung == Mirage_setSwingH(Mirage_setSwingV(lit, Mirage_convertSwingV(s.swingv)),
                                  s.swingh # "Off")
        clean == Mirage_setFilter(Mirage_setCleanToggle(Mirage_setQuiet(swung, s.quiet),
                                                        s.clean),
                                  s.filter)
        felt == Mirage_setIFeel(Mirage_setClock(clean, 60 * AtLeast(s.clock, 0)), s.iFeel)
        sensed == Mirage_setSensorTemp(felt, IF s.sensorTemperature > 255
                                               THEN cast ELSE s.sensorTemperature)
    IN Mirage_setOffTimer(Mirage_setOnTimer(sensed, 0), 0)

(* What the state does not hold is put back by setModel itself; the        *)
(* reading in eight bits.                                                  *)
Mirage_setModel(a, model, cast) ==
    LET made == Mirage_fromCommon([Mirage_toCommon(a) EXCEPT !.model = model], cast)
        timed == Mirage_setOffTimer(Mirage_setOnTimer(made, Mirage_getOnTimer(a)),
                                    Mirage_getOffTimer(a))
        felt == Mirage_setIFeel(timed, a.IFeel)
    IN IF model = a.model THEN a
       ELSE Mirage_setSensorTemp(felt, Mirage_getSensorTemp(a) % 256)

Mirage_Wishes == [model : Mirage_Models, power : BOOLEAN, mode : {"Auto", "Dry"},
                  degrees : {15, 33}, sensorTemperature : {0}, fan : {"Low"},
                  swingv : {"Off", "Low"}, swingh : {"Left"}, turbo : {TRUE},
                  light : {TRUE}, clean : {FALSE}, filter : {FALSE},
                  sleep : {FALSE}, quiet : {FALSE}, clock : {-1}, iFeel : BOOLEAN]

Mirage_Casts == {0, 255}

Mirage_Init == ac \in {Mirage_stateReset} \cup {Mirage_fromCommon(w, n) : w \in Mirage_Wishes,
                                                n \in Mirage_Casts}

Mirage_Next ==
    \/ \E m \in Mirage_Models, n \in Mirage_Casts : ac' = Mirage_setModel(ac, m, n)
    \/ \E on \in BOOLEAN : ac' = Mirage_setPower(ac, on)
    \/ \E m \in {"Recycle", "?"} : ac' = Mirage_setMode(ac, m)
    \/ ac' = Mirage_setTemp(ac, 33) \/ ac' = Mirage_setFan(ac, 4)
    \/ \E p \in {7, Mirage_SwingVOff} : ac' = Mirage_setSwingV(ac, p)
    \/ ac' = Mirage_setTurbo(ac, TRUE) \/ ac' = Mirage_setSleep(ac, FALSE)
    \/ ac' = Mirage_setLight(ac, TRUE) \/ ac' = Mirage_setClock(ac, 86400)
    \/ ac' = Mirage_setSwingH(ac, TRUE) \/ ac' = Mirage_setQuiet(ac, FALSE)
    \/ ac' = Mirage_setCleanToggle(ac, TRUE) \/ ac' = Mirage_setFilter(ac, FALSE)
    \/ \E on \in BOOLEAN : ac' = Mirage_setIFeel(ac, on)
    \/ ac' = Mirage_setSensorTemp(ac, 50)
    \/ ac' = Mirage_setOnTimer(ac, 1441) \/ ac' = Mirage_setOffTimer(ac, 0)
    \/ ac' = Mirage_send(ac)

Mirage_TypeOK == ac \in Mirage_Object

Mirage_Both == {"power", "mode", "degrees", "fan", "turbo", "sleep", "light"}

(* Turbo is for Cool; the swing is a position whether the unit is on or    *)
(* off; the other model is told the same of what both have; and a          *)
(* temperature that stands in for a reading is read as 20 degrees less.    *)
Mirage_Rules ==
    /\ ac.Turbo => ac.Mode = "Cool"
    /\ Mirage_getSwingV(ac) \in Mirage_SwingVs
    /\ \A m \in Mirage_Models, n \in Mirage_Casts :
         LET other == Mirage_setModel(ac, m, n) IN
         /\ \A f \in Mirage_Both : Mirage_toCommon(other)[f] = Mirage_toCommon(ac)[f]
         /\ (Mirage_toCommon(other).swingv = "Off") = (Mirage_toCommon(ac).swingv = "Off")
    /\ Mirage_KKG29(ac) => Mirage_getSensorTemp(Mirage_setIFeel(Mirage_setIFeel(ac, FALSE),
                                                                TRUE)) =
                             (ac.Temp - Mirage_SensorTempOffset) % 65536

(* A state that was read is sent as it was read, but for a reading of the  *)
(* temperature when there is none (which is read as 65516 degrees), or     *)
(* when it is one that stands in.                                          *)
Mirage_Rereads ==
    LET read == Mirage_toCommon(ac) IN
    \A n \in Mirage_Casts :
      SameState(read, Mirage_toCommon(Mirage_fromCommon(read, n)),
                IF read.sensorTemperature > 255 THEN {"sensorTemperature"}
                                                ELSE {})

Mirage_PowerCycles == Mirage_setPower(Mirage_setPower(ac, FALSE), TRUE) = Mirage_setPower(ac, TRUE)

-----------------------------------------------------------------------------
(***************************************************************************)
(* ir_Neoclima.h, ir_Neoclima.cpp: a message names the button that was     *)
(* pressed last, the temperature counts from the lowest of its unit, and   *)
(* Dry has one fan speed.                                                  *)
(***************************************************************************)
Neoclima_Modes == {"Auto", "Cool", "Dry", "Fan", "Heat"}
Neoclima_Fans == {"Auto", "High", "Med", "Low"}
Neoclima_Flags == {"Turbo", "Econo", "Light", "Ion", "Sleep", "Fresh", "Hold",
                   "8CHeat", "Eye", "Follow"}
Neoclima_Buttons == Neoclima_Flags \cup {"Power", "Mode", "TempUp", "TempDown", "Swing",
                                         "FanSpeed", "AirFlow"}

Neoclima_Object == [Power : BOOLEAN, Mode : Neoclima_Modes, Fan : Neoclima_Fans, Temp : 0..29,
                    UseFah : BOOLEAN, SwingV : BOOLEAN, SwingH : BOOLEAN,
                    flags : SUBSET Neoclima_Flags, Button : Neoclima_Buttons]

Neoclima_stateReset == [Power |-> TRUE, Mode |-> "Cool", Fan |-> "Low", Temp |-> 10,
                        UseFah |-> FALSE, SwingV |-> FALSE, SwingH |-> TRUE,
                        flags |-> {}, Button |-> "Power"]

Neoclima_Press(a, button) == [a EXCEPT !.Button = button]

Neoclima_setPower(a, on) == Neoclima_Press([a EXCEPT !.Power = on], "Power")
Neoclima_setSwingV(a, on) == Neoclima_Press([a EXCEPT !.SwingV = on], "Swing")
Neoclima_setSwingH(a, on) == Neoclima_Press([a EXCEPT !.SwingH = on], "AirFlow")

(* setTurbo, setEcono, ..., each with the button of its name. *)
Neoclima_setFlag(a, flag, on) ==
    Neoclima_Press([a EXCEPT !.flags = IF on THEN @ \cup {flag} ELSE @ \ {flag}], flag)

Neoclima_MinTemp(celsius) == IF celsius THEN 16 ELSE 61
Neoclima_MaxTemp(celsius) == IF celsius THEN 32 ELSE 90

Neoclima_getTemp(a) == a.Temp + Neoclima_MinTemp(~a.UseFah)

(* Up or down is told by the numbers, whatever their units. *)
Neoclima_setTemp(a, temp, celsius) ==
    LET new == Clamp(temp, Neoclima_MinTemp(celsius), Neoclima_MaxTemp(celsius)) IN
    [a EXCEPT !.UseFah = ~celsius, !.Temp = new - Neoclima_MinTemp(celsius),
              !.Button = CASE Neoclima_getTemp(a) > new -> "TempDown"
                           [] new > Neoclima_getTemp(a) -> "TempUp"
                           [] OTHER -> @]

Neoclima_setFan(a, speed) ==
    Neoclima_Press([a EXCEPT !.Fan = CASE a.Mode = "Dry" -> "Low"
                                       [] a.Mode # "Dry" /\ speed \in Neoclima_Fans -> speed
                                       [] OTHER -> "Auto"], "FanSpeed")

Neoclima_setMode(a, mode) ==
    LET b == IF mode = "Dry" THEN Neoclima_setFan(a, "Low") ELSE a IN
    Neoclima_Press([b EXCEPT !.Mode = IF mode \in Neoclima_Modes THEN mode ELSE "Auto"], "Mode")

Neoclima_convertMode(mode) == IF mode = "Off" THEN "Auto" ELSE mode
Neoclima_toCommonMode(mode) == mode

Neoclima_convertFan(fan) ==
    CASE fan \in {"Min", "Low"} -> "Low" [] fan = "Medium" -> "Med"
      [] fan \in {"High", "Max"} -> "High" [] OTHER -> "Auto"

Neoclima_toCommonFanSpeed(fan) ==
    CASE fan = "High" -> "Max" [] fan = "Med" -> "Medium"
      [] fan = "Low" -> "Min" [] OTHER -> "Auto"

Neoclima_toCommon(a) ==
    [power |-> a.Power, mode |-> Neoclima_toCommonMode(a.Mode), celsius |-> ~a.UseFah,
     degrees |-> Neoclima_getTemp(a), fan |-> Neoclima_toCommonFanSpeed(a.Fan),
     swingv |-> OnOff(a.SwingV), swingh |-> OnOff(a.SwingH),
     flags |-> a.flags \cap {"Turbo", "Econo", "Light", "Ion", "Sleep"}]

(* In `flags`: turbo, econo, light, filter (Ion) and sleep. *)
Neoclima_neoclima(w) ==
    LET fanned == Neoclima_setFan(Neoclima_setTemp(Neoclima_setMode(Neoclima_stateReset,
                                                                    Neoclima_convertMode(w.mode)),
                                                   w.degrees, w.celsius),
                                  Neoclima_convertFan(w.fan))
        swung == Neoclima_setSwingH(Neoclima_setSwingV(fanned, w.swingv # "Off"),
                                    w.swingh # "Off")
    IN Neoclima_setPower([swung EXCEPT !.flags = w.flags], w.power)

Neoclima_Wishes == [power : BOOLEAN, mode : opmode_t, celsius : BOOLEAN,
                    degrees : {15, 24, 61, 91}, fan : {"Auto", "Low", "High"},
                    swingv : {"Off", "Low"}, swingh : {"Off", "Left"},
                    flags : {{}, {"Turbo", "Sleep"}}]

Neoclima_Init == ac \in {Neoclima_stateReset} \cup {Neoclima_neoclima(w) : w \in Neoclima_Wishes}

Neoclima_Next ==
    \/ ac' = Neoclima_setPower(ac, FALSE)
    \/ \E m \in Neoclima_Modes \cup {"?"} : ac' = Neoclima_setMode(ac, m)
    \/ \E t \in {24, 91}, celsius \in BOOLEAN : ac' = Neoclima_setTemp(ac, t, celsius)
    \/ \E f \in {"Med", "?"} : ac' = Neoclima_setFan(ac, f)
    \/ ac' = Neoclima_setSwingV(ac, TRUE)
    \/ ac' = Neoclima_setSwingH(ac, TRUE)
    \/ \E on \in BOOLEAN : ac' = Neoclima_setFlag(ac, "Turbo", on)

Neoclima_TypeOK == ac \in Neoclima_Object

(* Dry has its fan in whatever order they are set.  The button names a     *)
(* change that the message has: a switch by that button is on or off as it *)
(* was set last, and up and down agree with the temperatures of one unit.  *)
Neoclima_Rules ==
    /\ ac.Mode = "Dry" => ac.Fan = "Low"
    /\ \A t \in {15, 16, 24, 32, 60, 61, 90, 91}, celsius \in BOOLEAN :
         LET b == Neoclima_setTemp(ac, t, celsius) IN
         /\ Neoclima_getTemp(b) \in Neoclima_MinTemp(celsius)..Neoclima_MaxTemp(celsius)
         /\ celsius = ~ac.UseFah /\ b.Temp > ac.Temp => b.Button = "TempUp"
         /\ celsius = ~ac.UseFah /\ b.Temp < ac.Temp => b.Button = "TempDown"

(* A state that was read is sent as it was read. *)
Neoclima_Rereads == SameState(Neoclima_toCommon(ac),
                              Neoclima_toCommon(Neoclima_neoclima(Neoclima_toCommon(ac))), {})

-----------------------------------------------------------------------------
(***************************************************************************)
(* ir_Rhoss.h, ir_Rhoss.cpp.  toCommon() takes the temperature as it is in *)
(* the message, without the offset that setTemp() has taken off.           *)
(***************************************************************************)
Rhoss_Modes == {"Cool", "Heat", "Dry", "Fan", "Auto"}
Rhoss_Fans == {"Auto", "Min", "Med", "Max"}

Rhoss_Object == [Power : BOOLEAN, Mode : Rhoss_Modes, Fan : Rhoss_Fans, Temp : 0..14,
                 Swing : BOOLEAN]

Rhoss_stateReset == [Power |-> FALSE, Mode |-> "Cool", Fan |-> "Auto", Temp |-> 5,
                     Swing |-> FALSE]

Rhoss_setPower(a, on) == [a EXCEPT !.Power = on]
Rhoss_setTemp(a, degrees) == [a EXCEPT !.Temp = Clamp(degrees, 16, 30) - 16]
Rhoss_setSwing(a, on) == [a EXCEPT !.Swing = on]
Rhoss_setFan(a, speed) == [a EXCEPT !.Fan = IF speed \in Rhoss_Fans THEN speed ELSE "Auto"]
Rhoss_setMode(a, mode) == [a EXCEPT !.Mode = IF mode \in Rhoss_Modes THEN mode ELSE "Cool"]

Rhoss_convertMode(mode) == IF mode = "Off" THEN "Cool" ELSE mode

Rhoss_convertFan(fan) ==
    CASE fan \in {"Min", "Low"} -> "Min" [] fan = "Medium" -> "Med"
      [] fan \in {"High", "Max"} -> "Max" [] OTHER -> "Auto"

Rhoss_toCommonFanSpeed(fan) == IF fan = "Med" THEN "Medium" ELSE fan

Rhoss_toCommon(a) == [power |-> a.Power, mode |-> a.Mode, degrees |-> a.Temp,
                      fan |-> Rhoss_toCommonFanSpeed(a.Fan), swingv |-> OnOff(a.Swing)]

(* A mutant of rhoss: the swing is set the wrong way round. *)
Rhoss_rhoss_Swing(w) ==
    Rhoss_setFan(Rhoss_setTemp(Rhoss_setSwing(Rhoss_setMode(Rhoss_setPower(Rhoss_stateReset,
                                                                           w.power),
                                                            Rhoss_convertMode(w.mode)),
                                              w.swingv = "Off"),
                               w.degrees),
                 Rhoss_convertFan(w.fan))

Rhoss_rhoss(w) ==
    Rhoss_setFan(Rhoss_setTemp(Rhoss_setSwing(Rhoss_setMode(Rhoss_setPower(Rhoss_stateReset,
                                                                           w.power),
                                                            Rhoss_convertMode(w.mode)),
                                              w.swingv # "Off"),
                               w.degrees),
                 Rhoss_convertFan(w.fan))

Rhoss_Wishes == [power : BOOLEAN, mode : opmode_t, degrees : Around(16, 30),
                 fan : fanspeed_t, swingv : swingv_t]

Rhoss_Init == ac \in {Rhoss_stateReset} \cup {Rhoss_rhoss(w) : w \in Rhoss_Wishes}

Rhoss_Next ==
    \/ \E on \in BOOLEAN : ac' = Rhoss_setPower(ac, on)
    \/ \E m \in Rhoss_Modes \cup {"?"} : ac' = Rhoss_setMode(ac, m)
    \/ \E t \in Around(16, 30) : ac' = Rhoss_setTemp(ac, t)
    \/ \E on \in BOOLEAN : ac' = Rhoss_setSwing(ac, on)
    \/ \E f \in Rhoss_Fans \cup {"?"} : ac' = Rhoss_setFan(ac, f)

Rhoss_TypeOK == ac \in Rhoss_Object

(* A state that was read is sent as it was read, but for the temperature. *)
Rhoss_Rereads ==
    SameState(Rhoss_toCommon(ac), Rhoss_toCommon(Rhoss_rhoss(Rhoss_toCommon(ac))), {"degrees"})

-----------------------------------------------------------------------------
Init ==
    \/ remote = "Midea" /\ Midea_Init
    \/ remote = "Mirage" /\ Mirage_Init
    \/ remote = "Neoclima" /\ Neoclima_Init
    \/ remote = "Rhoss" /\ Rhoss_Init

Next ==
    /\ UNCHANGED remote
    /\ \/ remote = "Midea" /\ Midea_Next
       \/ remote = "Mirage" /\ Mirage_Next
       \/ remote = "Neoclima" /\ Neoclima_Next
       \/ remote = "Rhoss" /\ Rhoss_Next

Spec == Init /\ [][Next]_<<remote, ac>>

(* The object stays one that its message can carry. *)
TypeOK ==
    CASE remote = "Midea" -> Midea_TypeOK
      [] remote = "Mirage" -> Mirage_TypeOK
      [] remote = "Neoclima" -> Neoclima_TypeOK
      [] remote = "Rhoss" -> Rhoss_TypeOK
      [] OTHER -> TRUE

(* What a class says of its settings together, see there. *)
Rules ==
    CASE remote = "Midea" -> Midea_Rules
      [] remote = "Mirage" -> Mirage_Rules
      [] remote = "Neoclima" -> Neoclima_Rules
      [] OTHER -> TRUE

(* A state that was read from a message is sent as it was read, see there. *)
Rereads ==
    CASE remote = "Midea" -> Midea_Rereads
      [] remote = "Mirage" -> Mirage_Rereads
      [] remote = "Neoclima" -> Neoclima_Rereads
      [] remote = "Rhoss" -> Rhoss_Rereads
      [] OTHER -> TRUE

(* Off and on again is on as before, see there. *)
PowerCycles ==
    CASE remote = "Mirage" -> Mirage_PowerCycles
      [] OTHER -> TRUE
=============================================================================
