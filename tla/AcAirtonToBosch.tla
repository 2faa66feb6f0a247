--------------------------- MODULE AcAirtonToBosch ----------------------------
(***************************************************************************)
(* The remotes of Airton, Airwell, Amcor and Bosch: one object of one of the*)
(* classes, `Airton', `Airwell', `Amcor', `Bosch'. What belongs to a class *)
(* has its name in front, as in Airton_Next; after it come the names of the*)
(* source.                                                                 *)
(***************************************************************************)
EXTENDS StdAc, Sequences

VARIABLES
    remote,    \* the class
    ac         \* its object

-----------------------------------------------------------------------------
(***************************************************************************)
(* ir_Airton.h, ir_Airton.cpp: the mode decides about sleep, economy and   *)
(* temperature, and two bits repeat power and mode.                        *)
(***************************************************************************)
Airton_Modes == {"Auto", "Cool", "Dry", "Fan", "Heat"}
Airton_Fans == {"Auto", "Min", "Low", "Med", "High", "Max"}

Airton_Object == [Power : BOOLEAN, Mode : Airton_Modes, Fan : Airton_Fans, Temp : 0..15,
                  Turbo : BOOLEAN, SwingV : BOOLEAN, Econo : BOOLEAN,
                  Sleep : BOOLEAN, NotAutoOn : BOOLEAN, HeatOn : BOOLEAN,
                  Health : BOOLEAN, Light : BOOLEAN]

(* 0x11D3: nothing but the header. *)
Airton_stateReset == [Power |-> FALSE, Mode |-> "Auto", Fan |-> "Auto", Temp |-> 0,
                      Turbo |-> FALSE, SwingV |-> FALSE, Econo |-> FALSE,
                      Sleep |-> FALSE, NotAutoOn |-> FALSE, HeatOn |-> FALSE,
                      Health |-> FALSE, Light |-> FALSE]

Airton_setSwingV(a, on) == [a EXCEPT !.SwingV = on]
Airton_setLight(a, on) == [a EXCEPT !.Light = on]
Airton_setHealth(a, on) == [a EXCEPT !.Health = on]

Airton_setTemp(a, degrees) ==
    [a EXCEPT !.Temp =
       IF a.Mode = "Auto" THEN 15 ELSE Clamp(degrees, 16, 31) - 16]

Airton_setFan(a, speed) == [a EXCEPT !.Fan = IF speed \in Airton_Fans THEN speed ELSE "Auto"]

Airton_setEcono(a, on) == [a EXCEPT !.Econo = on /\ a.Mode = "Cool"]

Airton_setTurbo(a, on) ==
    IF on THEN Airton_setFan([a EXCEPT !.Turbo = TRUE], "Max")
          ELSE [a EXCEPT !.Turbo = FALSE]

Airton_setSleep(a, on) == [a EXCEPT !.Sleep = on /\ a.Mode \notin {"Auto", "Fan"}]

(* The switch of setMode, with the mode in place. *)
Airton_InMode(a) ==
    CASE a.Mode = "Auto" -> [Airton_setTemp(a, 25) EXCEPT !.NotAutoOn = ~a.Power]
      [] a.Mode = "Heat" -> [a EXCEPT !.HeatOn = a.Power, !.NotAutoOn = TRUE]
      [] OTHER -> [a EXCEPT !.NotAutoOn = TRUE]

Airton_setMode(a, mode) ==
    LET b == IF mode # a.Mode THEN Airton_setSleep(a, FALSE) ELSE a
        c == Airton_InMode([b EXCEPT !.Mode = IF mode \in Airton_Modes THEN mode ELSE "Auto"])
    IN Airton_setEcono(c, c.Econo)

Airton_setPower(a, on) == Airton_setMode([a EXCEPT !.Power = on], a.Mode)

Airton_convertMode(mode) ==
    IF mode \in {"Cool", "Heat", "Dry", "Fan"} THEN mode ELSE "Auto"

Airton_convertFan(fan) ==
    CASE fan \in {"Min", "Low", "High", "Max"} -> fan
      [] fan = "Medium" -> "Med" [] OTHER -> "Auto"

Airton_toCommonFanSpeed(fan) == IF fan = "Med" THEN "Medium" ELSE fan

Airton_toCommon(a) ==
    [power |-> a.Power, mode |-> a.Mode, degrees |-> a.Temp + 16,
     fan |-> Airton_toCommonFanSpeed(a.Fan), swingv |-> OnOff(a.SwingV),
     turbo |-> a.Turbo, light |-> a.Light, econo |-> a.Econo,
     filter |-> a.Health, sleep |-> a.Sleep]

Airton_airton(w) ==
    LET basic == Airton_setFan(Airton_setTemp(Airton_setMode(Airton_setPower(Airton_stateReset,
                                                                             w.power),
                                                             Airton_convertMode(w.mode)),
                                              w.degrees),
                               Airton_convertFan(w.fan))
        airy == Airton_setHealth(Airton_setLight(Airton_setSwingV(basic, w.swingv # "Off"),
                                                 w.light),
                                 w.filter)
    IN Airton_setSleep(Airton_setEcono(Airton_setTurbo(airy, w.turbo), w.econo), w.sleep)

(* Of the settings that touch no other, light and filter, a wish turns on  *)
(* neither or both.                                                        *)
Airton_Wishes ==
    {w \in [power : BOOLEAN, mode : opmode_t, degrees : {15, 24, 32},
            fan : {"Auto", "Low", "Medium", "Max"}, swingv : {"Off", "High"},
            turbo : BOOLEAN, light : BOOLEAN, econo : BOOLEAN,
            filter : BOOLEAN, sleep : BOOLEAN] :
       w.light = w.filter}

Airton_Init == ac \in {Airton_stateReset} \cup {Airton_airton(w) : w \in Airton_Wishes}

Airton_Next ==
    \/ \E on \in BOOLEAN : ac' = Airton_setPower(ac, on)
    \/ \E m \in Airton_Modes \cup {"?"} : ac' = Airton_setMode(ac, m)
    \/ \E t \in {15, 24, 32} : ac' = Airton_setTemp(ac, t)
    \/ \E f \in {"Auto", "Low", "Med", "Max"} : ac' = Airton_setFan(ac, f)
    \/ \E on \in BOOLEAN : ac' = Airton_setTurbo(ac, on)
    \/ \E on \in BOOLEAN : ac' = Airton_setEcono(ac, on)
    \/ \E on \in BOOLEAN : ac' = Airton_setSleep(ac, on)
    \/ \E on \in BOOLEAN : ac' = Airton_setSwingV(ac, on)
    \/ \E on \in BOOLEAN : ac' = Airton_setLight(ac, on)
    \/ \E on \in BOOLEAN : ac' = Airton_setHealth(ac, on)

Airton_TypeOK == ac \in Airton_Object

(* What the mode has decided stays so whatever is set after it, and the    *)
(* bit NotAutoOn follows the power also when it is switched in a mode.     *)
Airton_Rules ==
    /\ ac.Econo => ac.Mode = "Cool"
    /\ ac.Sleep => ac.Mode \notin {"Auto", "Fan"}
    /\ ac.Power /\ ac.Mode = "Auto" => ac.Temp = 15
    /\ ac.Power => ac.NotAutoOn = (ac.Mode # "Auto")
    /\ ac.Power /\ ac.Mode = "Heat" => ac.HeatOn

(* A state that was read is sent as it was read; turbo brings its own fan. *)
Airton_Rereads ==
    SameState(Airton_toCommon(ac), Airton_toCommon(Airton_airton(Airton_toCommon(ac))),
              IF ac.Turbo THEN {"fan"} ELSE {})

(* Switched off and on again the remote says what it said before. *)
Airton_PowerCycles ==
    ac.Power => Airton_setPower(Airton_setPower(ac, FALSE), TRUE) = ac

-----------------------------------------------------------------------------
(***************************************************************************)
(* ir_Airwell.h, ir_Airwell.cpp: the message toggles the power, and Dry    *)
(* has one fan speed.                                                      *)
(***************************************************************************)
Airwell_Modes == {"Cool", "Heat", "Auto", "Dry", "Fan"}
Airwell_Fans == {"Low", "Medium", "High", "Auto"}

Airwell_Object == [PowerToggle : BOOLEAN, Mode : Airwell_Modes, Fan : Airwell_Fans,
                   Temp : 1..15]

(* 0x140500002. *)
Airwell_stateReset ==
    [PowerToggle |-> FALSE, Mode |-> "Fan", Fan |-> "Low", Temp |-> 10]

Airwell_setPowerToggle(a, on) == [a EXCEPT !.PowerToggle = on]

Airwell_setFan(a, speed) ==
    [a EXCEPT !.Fan = CASE a.Mode = "Dry" -> "Low"
                        [] a.Mode # "Dry" /\ speed \in Airwell_Fans -> speed
                        [] OTHER -> "Auto"]

Airwell_setMode(a, mode) ==
    LET m == [a EXCEPT !.Mode = IF mode \in Airwell_Modes THEN mode ELSE "Auto"] IN
    Airwell_setFan(m, m.Fan)

Airwell_setTemp(a, degrees) == [a EXCEPT !.Temp = Clamp(degrees, 16, 30) - 15]

Airwell_convertMode(mode) ==
    IF mode \in {"Cool", "Heat", "Dry", "Fan"} THEN mode ELSE "Auto"

Airwell_convertFan(fan) ==
    CASE fan \in {"Min", "Low"} -> "Low" [] fan = "Medium" -> "Medium"
      [] fan \in {"High", "Max"} -> "High" [] OTHER -> "Auto"

Airwell_toCommonFanSpeed(fan) ==
    CASE fan = "High" -> "Max" [] fan = "Low" -> "Min" [] OTHER -> fan

(* before: the power of the state the message was received in. *)
Airwell_toCommon(a, before) ==
    [power |-> before # a.PowerToggle, mode |-> a.Mode,
     degrees |-> a.Temp + 15, fan |-> Airwell_toCommonFanSpeed(a.Fan)]

(* w.power: the power is to be toggled (IRac::handleToggles). *)
Airwell_airwell(w) ==
    Airwell_setFan(Airwell_setTemp(Airwell_setMode(Airwell_setPowerToggle(Airwell_stateReset,
                                                                          w.power),
                                                   Airwell_convertMode(w.mode)),
                                   w.degrees),
                   Airwell_convertFan(w.fan))

Airwell_Wishes == [power : BOOLEAN, mode : opmode_t, degrees : Around(16, 30),
                   fan : fanspeed_t]

Airwell_Init == ac \in {Airwell_stateReset} \cup {Airwell_airwell(w) : w \in Airwell_Wishes}

Airwell_Next ==
    \/ \E on \in BOOLEAN : ac' = Airwell_setPowerToggle(ac, on)
    \/ \E m \in Airwell_Modes \cup {"?"} : ac' = Airwell_setMode(ac, m)
    \/ \E t \in Around(16, 30) : ac' = Airwell_setTemp(ac, t)
    \/ \E f \in Airwell_Fans \cup {"?"} : ac' = Airwell_setFan(ac, f)

Airwell_TypeOK == ac \in Airwell_Object

(* Whether the mode or the fan is set last, Dry has the fan low. *)
Airwell_Rules == ac.Mode = "Dry" => ac.Fan = "Low"

(* A state that was read, whatever the power was before, is sent as it was *)
(* read: a unit that has it keeps it, one that has the other power gets it.*)
Airwell_Rereads ==
    \A before, unit \in BOOLEAN :
      LET read == Airwell_toCommon(ac, before)
          again == Airwell_airwell([read EXCEPT !.power = read.power # unit])
      IN SameState(read, Airwell_toCommon(again, unit), {})

-----------------------------------------------------------------------------
(***************************************************************************)
(* ir_Amcor.h, ir_Amcor.cpp: the vent is open in the mode Fan, and Max     *)
(* takes the temperature to its limit.                                     *)
(***************************************************************************)
Amcor_Modes == {"Cool", "Heat", "Fan", "Dry", "Auto"}
Amcor_Fans == {"Min", "Med", "Max", "Auto"}

Amcor_Object == [Power : BOOLEAN, Mode : Amcor_Modes, Fan : Amcor_Fans, Temp : 12..32,
                 Max : BOOLEAN, Vent : BOOLEAN]

Amcor_stateReset == [Power |-> FALSE, Mode |-> "Auto", Fan |-> "Auto", Temp |-> 25,
                     Max |-> FALSE, Vent |-> FALSE]

Amcor_setPower(a, on) == [a EXCEPT !.Power = on]

Amcor_setTemp(a, degrees) == [a EXCEPT !.Temp = Clamp(degrees, 12, 32)]

Amcor_setMax(a, on) ==
    CASE ~on -> [a EXCEPT !.Max = FALSE]
      [] on /\ a.Mode = "Cool" -> [a EXCEPT !.Max = TRUE, !.Temp = 12]
      [] on /\ a.Mode = "Heat" -> [a EXCEPT !.Max = TRUE, !.Temp = 32]
      [] OTHER -> a

Amcor_setFan(a, speed) == [a EXCEPT !.Fan = IF speed \in Amcor_Fans THEN speed ELSE "Auto"]

Amcor_setMode(a, mode) ==
    [a EXCEPT !.Vent = mode = "Fan",
              !.Mode = IF mode \in Amcor_Modes THEN mode ELSE "Auto"]

Amcor_convertMode(mode) ==
    IF mode \in {"Cool", "Heat", "Dry", "Fan"} THEN mode ELSE "Auto"

Amcor_convertFan(fan) ==
    CASE fan \in {"Min", "Low"} -> "Min" [] fan = "Medium" -> "Med"
      [] fan \in {"High", "Max"} -> "Max" [] OTHER -> "Auto"

Amcor_toCommonFanSpeed(fan) == IF fan = "Med" THEN "Medium" ELSE fan

Amcor_toCommon(a) == [power |-> a.Power, mode |-> a.Mode, degrees |-> a.Temp,
                      fan |-> Amcor_toCommonFanSpeed(a.Fan)]

Amcor_amcor(w) ==
    Amcor_setFan(Amcor_setTemp(Amcor_setMode(Amcor_setPower(Amcor_stateReset, w.power),
                                             Amcor_convertMode(w.mode)),
                               w.degrees),
                 Amcor_convertFan(w.fan))

Amcor_Wishes == [power : BOOLEAN, mode : opmode_t, degrees : Around(12, 32),
                 fan : fanspeed_t]

Amcor_Init == ac \in {Amcor_stateReset} \cup {Amcor_amcor(w) : w \in Amcor_Wishes}

Amcor_Next ==
    \/ \E on \in BOOLEAN : ac' = Amcor_setPower(ac, on)
    \/ \E m \in Amcor_Modes \cup {"?"} : ac' = Amcor_setMode(ac, m)
    \/ \E t \in Around(12, 32) : ac' = Amcor_setTemp(ac, t)
    \/ \E on \in BOOLEAN : ac' = Amcor_setMax(ac, on)
    \/ \E f \in Amcor_Fans \cup {"?"} : ac' = Amcor_setFan(ac, f)

Amcor_TypeOK == ac \in Amcor_Object

(* The vent goes with the mode, whatever mode was asked for; the maximum,  *)
(* which setMax refuses outside of Cool and Heat, is not taken back by a   *)
(* later mode.                                                             *)
Amcor_Rules ==
    /\ ac.Vent = (ac.Mode = "Fan")
    /\ LET a == Amcor_setMax(ac, TRUE) IN
       /\ ac.Mode \in {"Cool", "Heat"} => a.Max
       /\ \A m \in Amcor_Modes : Amcor_setMode(a, m).Max = a.Max

(* A state that was read is sent as it was read. *)
Amcor_Rereads == SameState(Amcor_toCommon(ac), Amcor_toCommon(Amcor_amcor(Amcor_toCommon(ac))),
                           {})

-----------------------------------------------------------------------------
(***************************************************************************)
(* ir_Bosch.h, ir_Bosch.cpp (BOSCH144): the temperature is a code, looked  *)
(* up in one of two tables, and the power is not in the message at all:    *)
(* an object that is off sends a constant.                                 *)
(***************************************************************************)
Bosch_Modes == {"Cool", "Dry", "Auto", "Heat", "Fan"}

Bosch_CelsiusMap == <<2, 0, 4, 12, 8, 24, 28, 20, 16, 48, 52, 36, 32, 40, 44>>

Bosch_FahrenheitMap == <<2, 3, 0, 1, 4, 5, 12, 13, 8, 9, 24, 25, 28, 20, 21, 16, 17,
                         48, 49, 52, 53, 36, 32, 33, 40, 41, 44>>

(* Fan20 to Fan100 by their number; Auto0 is Auto in the modes Auto and    *)
(* Dry, None the code of a new object.                                     *)
Bosch_Fans == {"20", "40", "60", "80", "100", "Auto", "Auto0"}

Bosch_Object == [Power : BOOLEAN, Mode : Bosch_Modes, Temp : 0..63,
                 UseFahrenheit : BOOLEAN, Fan : Bosch_Fans \cup {"None"}, Quiet : BOOLEAN]

Bosch_stateReset == [Power |-> TRUE, Mode |-> "Auto", Temp |-> 48,
                     UseFahrenheit |-> FALSE, Fan |-> "None", Quiet |-> FALSE]

Bosch_setPower(a, on) == [a EXCEPT !.Power = on]

Bosch_setTemp(a, temp, f) ==
    [a EXCEPT !.UseFahrenheit = f,
              !.Temp = IF f THEN Bosch_FahrenheitMap[Clamp(temp, 60, 86) - 59]
                            ELSE Bosch_CelsiusMap[Clamp(temp, 16, 30) - 15]]

Bosch_setUseFahrenheit(a, on) == [a EXCEPT !.UseFahrenheit = on]

(* The first entry that matches, or a default. *)
Bosch_getTemp(a) ==
    LET map == IF a.UseFahrenheit THEN Bosch_FahrenheitMap ELSE Bosch_CelsiusMap
        found == {i \in DOMAIN map : map[i] = a.Temp}
        first == CHOOSE i \in found : \A j \in found : i <= j
    IN CASE found = {} -> IF a.UseFahrenheit THEN 77 ELSE 25
         [] OTHER -> first + (IF a.UseFahrenheit THEN 59 ELSE 15)

Bosch_setFan(a, speed) == [a EXCEPT !.Fan = speed]

Bosch_setMode(a, mode) ==
    [a EXCEPT !.Mode = mode,
              !.Fan = IF mode \in {"Auto", "Dry"} THEN "Auto0" ELSE @]

Bosch_setQuiet(a, on) == [a EXCEPT !.Quiet = on, !.Fan = IF on THEN "Auto" ELSE @]

Bosch_convertMode(mode) == IF mode = "Off" THEN "Auto" ELSE mode

Bosch_convertFan(fan) ==
    CASE fan = "Min" -> "20" [] fan = "Low" -> "40" [] fan = "Medium" -> "60"
      [] fan = "High" -> "80" [] fan = "Max" -> "100" [] OTHER -> "Auto"

Bosch_toCommonFanSpeed(fan) ==
    CASE fan = "20" -> "Min" [] fan = "40" -> "Low" [] fan = "60" -> "Medium"
      [] fan = "80" -> "High" [] fan = "100" -> "Max" [] OTHER -> "Auto"

Bosch_toCommon(a) ==
    [power |-> a.Power, mode |-> a.Mode, celsius |-> ~a.UseFahrenheit,
     degrees |-> Bosch_getTemp(a), fan |-> Bosch_toCommonFanSpeed(a.Fan),
     quiet |-> a.Quiet]

Bosch_bosch144(w) ==
    LET a == Bosch_setPower(Bosch_stateReset, w.power) IN
    IF ~w.power
      THEN a
      ELSE Bosch_setQuiet(Bosch_setMode(Bosch_setFan(Bosch_setTemp(a, w.degrees, ~w.celsius),
                                                     Bosch_convertFan(w.fan)),
                                        Bosch_convertMode(w.mode)),
                          w.quiet)

Bosch_Wishes == [power : BOOLEAN, mode : opmode_t, celsius : {TRUE},
                 degrees : {15, 22, 30}, fan : fanspeed_t, quiet : BOOLEAN]
     \cup [power : {TRUE}, mode : {"Cool"}, celsius : {FALSE},
           degrees : {60, 75, 87}, fan : {"Low"}, quiet : BOOLEAN]

Bosch_Init == ac \in {Bosch_stateReset} \cup {Bosch_bosch144(w) : w \in Bosch_Wishes}

Bosch_Next ==
    \/ \E on \in BOOLEAN : ac' = Bosch_setPower(ac, on)
    \/ \E m \in Bosch_Modes : ac' = Bosch_setMode(ac, m)
    \/ \E t \in {16, 31} : ac' = Bosch_setTemp(ac, t, FALSE)
    \/ \E t \in {59, 73} : ac' = Bosch_setTemp(ac, t, TRUE)
    \/ \E f \in BOOLEAN : ac' = Bosch_setUseFahrenheit(ac, f)
    \/ \E f \in Bosch_Fans : ac' = Bosch_setFan(ac, f)
    \/ \E on \in BOOLEAN : ac' = Bosch_setQuiet(ac, on)

Bosch_TypeOK == ac \in Bosch_Object

(* Each temperature of the scale in use is read back from its code: no     *)
(* code is in a table twice.                                               *)
Bosch_Rules ==
    \A t \in IF ac.UseFahrenheit THEN 60..86 ELSE 16..30 :
      Bosch_getTemp(Bosch_setTemp(ac, t, ac.UseFahrenheit)) = t

(* A state that was read is sent as it was read; quiet and the modes Auto  *)
(* and Dry bring their own fan.                                            *)
Bosch_Rereads ==
    SameState(Bosch_toCommon(ac), Bosch_toCommon(Bosch_bosch144(Bosch_toCommon(ac))),
              IF ac.Quiet \/ ac.Mode \in {"Auto", "Dry"} THEN {"fan"} ELSE {})

-----------------------------------------------------------------------------
Init ==
    \/ remote = "Airton" /\ Airton_Init
    \/ remote = "Airwell" /\ Airwell_Init
    \/ remote = "Amcor" /\ Amcor_Init
    \/ remote = "Bosch" /\ Bosch_Init

Next ==
    /\ UNCHANGED remote
    /\ \/ remote = "Airton" /\ Airton_Next
       \/ remote = "Airwell" /\ Airwell_Next
       \/ remote = "Amcor" /\ Amcor_Next
       \/ remote = "Bosch" /\ Bosch_Next

Spec == Init /\ [][Next]_<<remote, ac>>

(* The object stays one that its message can carry. *)
TypeOK ==
    CASE remote = "Airton" -> Airton_TypeOK
      [] remote = "Airwell" -> Airwell_TypeOK
      [] remote = "Amcor" -> Amcor_TypeOK
      [] remote = "Bosch" -> Bosch_TypeOK
      [] OTHER -> TRUE

(* What a class says of its settings together, see there. *)
Rules ==
    CASE remote = "Airton" -> Airton_Rules
      [] remote = "Airwell" -> Airwell_Rules
      [] remote = "Amcor" -> Amcor_Rules
      [] remote = "Bosch" -> Bosch_Rules
      [] OTHER -> TRUE

(* A state that was read from a message is sent as it was read, see there. *)
Rereads ==
    CASE remote = "Airton" -> Airton_Rereads
      [] remote = "Airwell" -> Airwell_Rereads
      [] remote = "Amcor" -> Amcor_Rereads
      [] remote = "Bosch" -> Bosch_Rereads
      [] OTHER -> TRUE

(* Off and on again is on as before, see there. *)
PowerCycles ==
    CASE remote = "Airton" -> Airton_PowerCycles
      [] OTHER -> TRUE
=============================================================================
