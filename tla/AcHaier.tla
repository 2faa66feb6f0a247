------------------------------- MODULE AcHaier --------------------------------
(***************************************************************************)
(* Haier's remotes: one object of one of the classes, `Haier', `Haier176', *)
(* `Haier160'. What belongs to a class has its name in front, as in        *)
(* Haier_Next; after it come the names of the source.                      *)
(***************************************************************************)
EXTENDS StdAc

VARIABLES
    remote,    \* the class
    ac         \* its object

-----------------------------------------------------------------------------
(***************************************************************************)
(* ir_Haier.h, ir_Haier.cpp, class IRHaierAC: a message is a command, of   *)
(* which on and off are two; the settings go with it.                      *)
(***************************************************************************)
Haier_Commands == {"Off", "On", "Mode", "Fan", "TempUp", "TempDown", "Sleep",
                   "TimerSet", "TimerCancel", "Health", "Swing"}
Haier_Modes == <<"Auto", "Cool", "Dry", "Heat", "Fan">>      \* numbers 0 to 4
Haier_MinTemp == 16
Haier_DefTemp == 25
Haier_MaxTemp == 30
Haier_MaxTime == 23 * 60 + 59
Haier_SwingVs == {"Off", "Up", "Down", "Chg"}

Haier_Object == [Command : Haier_Commands, Temp : 0..15, SwingV : Haier_SwingVs, Mode : 0..7,
                 Fan : 0..3, Health : BOOLEAN, Sleep : BOOLEAN, CurrHours : 0..31,
                 CurrMins : 0..63, OnTimer : BOOLEAN, OnHours : 0..31,
                 OnMins : 0..63, OffTimer : BOOLEAN, OffHours : 0..31,
                 OffMins : 0..63]

Haier_stateReset ==
    [Command |-> "On", Temp |-> Haier_DefTemp - Haier_MinTemp, SwingV |-> "Off",
     Mode |-> 0, Fan |-> 3, Health |-> FALSE, Sleep |-> FALSE,
     CurrHours |-> 0, CurrMins |-> 0, OnTimer |-> FALSE, OnHours |-> 0,
     OnMins |-> 0, OffTimer |-> FALSE, OffHours |-> 12, OffMins |-> 0]

Haier_setCommand(a, command) ==
    IF command \in Haier_Commands THEN [a EXCEPT !.Command = command] ELSE a

(* The message counts the speeds from the highest one. *)
Haier_getFan(a) == IF a.Fan = 0 THEN 0 ELSE 4 - a.Fan

Haier_setFan(a, speed) ==
    [a EXCEPT !.Command = IF speed # Haier_getFan(a) THEN "Fan" ELSE @,
              !.Fan = IF speed \in 1..3 THEN 4 - speed ELSE 0]

Haier_setMode(a, mode) ==
    [a EXCEPT !.Command = "Mode", !.Mode = IF mode > 4 THEN 0 ELSE mode]

Haier_getTemp(a) == a.Temp + Haier_MinTemp

Haier_setTemp(a, degrees) ==
    LET t == Clamp(degrees, Haier_MinTemp, Haier_MaxTemp) IN
    IF t = Haier_getTemp(a) THEN a
    ELSE [a EXCEPT !.Command = IF Haier_getTemp(a) > t THEN "TempDown" ELSE "TempUp",
                   !.Temp = t - Haier_MinTemp]

Haier_setHealth(a, on) == [a EXCEPT !.Command = "Health", !.Health = on]
Haier_setSleep(a, on) == [a EXCEPT !.Command = "Sleep", !.Sleep = on]

Haier_Capped(mins) == AtMost(mins, Haier_MaxTime)

Haier_setOnTimer(a, mins) ==
    [a EXCEPT !.Command = "TimerSet", !.OnTimer = TRUE,
              !.OnHours = Haier_Capped(mins) \div 60, !.OnMins = Haier_Capped(mins) % 60]
Haier_setOffTimer(a, mins) ==
    [a EXCEPT !.Command = "TimerSet", !.OffTimer = TRUE,
              !.OffHours = Haier_Capped(mins) \div 60, !.OffMins = Haier_Capped(mins) % 60]
Haier_cancelTimers(a) ==
    [a EXCEPT !.Command = "TimerCancel", !.OnTimer = FALSE, !.OffTimer = FALSE]
Haier_getOnTimer(a) == IF a.OnTimer THEN 60 * a.OnHours + a.OnMins ELSE -1
Haier_getOffTimer(a) == IF a.OffTimer THEN 60 * a.OffHours + a.OffMins ELSE -1

Haier_setCurrTime(a, mins) == [a EXCEPT !.CurrHours = Haier_Capped(mins) \div 60,
                                        !.CurrMins = Haier_Capped(mins) % 60]

Haier_setSwingV(a, state) ==
    IF state = a.SwingV \/ state \notin Haier_SwingVs THEN a
    ELSE [a EXCEPT !.Command = "Swing", !.SwingV = state]

Haier_convertMode(mode) ==
    IF \E n \in 1..4 : Haier_Modes[n + 1] = mode
      THEN CHOOSE n \in 1..4 : Haier_Modes[n + 1] = mode ELSE 0
Haier_toCommonMode(mode) == IF mode \in 1..4 THEN Haier_Modes[mode + 1] ELSE "Auto"

Haier_convertFan(speed) ==
    CASE speed \in {"Min", "Low"} -> 1 [] speed = "Medium" -> 2
      [] speed \in {"High", "Max"} -> 3 [] OTHER -> 0
Haier_toCommonFanSpeed(speed) ==
    CASE speed = 3 -> "Max" [] speed = 2 -> "Medium" [] speed = 1 -> "Min"
      [] OTHER -> "Auto"

Haier_convertSwingV(position) ==
    CASE position \in {"Highest", "High", "Middle"} -> "Up"
      [] position \in {"Low", "Lowest"} -> "Down"
      [] position = "Off" -> "Off" [] OTHER -> "Chg"
Haier_toCommonSwingV(pos) ==
    CASE pos = "Up" -> "Highest" [] pos = "Down" -> "Lowest"
      [] pos = "Off" -> "Off" [] OTHER -> "Auto"

Haier_toCommon(a) ==
    [power |-> a.Command # "Off", mode |-> Haier_toCommonMode(a.Mode),
     degrees |-> Haier_getTemp(a), fan |-> Haier_toCommonFanSpeed(Haier_getFan(a)),
     swingv |-> Haier_toCommonSwingV(a.SwingV), filter |-> a.Health,
     sleep |-> a.Sleep, clock |-> -1]

Haier_haier(w) ==
    LET cooled == Haier_setFan(Haier_setTemp(Haier_setMode(Haier_stateReset,
                                                           Haier_convertMode(w.mode)),
                                             w.degrees), Haier_convertFan(w.fan))
        rest == Haier_setSleep(Haier_setHealth(Haier_setSwingV(cooled, Haier_convertSwingV(w.swingv)),
                                               w.filter), w.sleep)
        timed == IF w.clock >= 0 THEN Haier_setCurrTime(rest, w.clock) ELSE rest
    IN Haier_setCommand(timed, IF w.power THEN "On" ELSE "Off")

Haier_Wishes == [power : BOOLEAN, mode : {"Off", "Fan"}, degrees : {15, 31},
                 fan : {"Auto", "Low", "Max"}, swingv : {"Off", "Low"},
                 filter : BOOLEAN, sleep : {TRUE}, clock : {-1, 1440}]

Haier_Init == ac \in {Haier_stateReset} \cup {Haier_haier(w) : w \in Haier_Wishes}

Haier_Next ==
    \/ \E c \in {"Off", "?"} : ac' = Haier_setCommand(ac, c)
    \/ \E s \in {1, 9} : ac' = Haier_setFan(ac, s)
    \/ \E m \in {2, 5} : ac' = Haier_setMode(ac, m)
    \/ ac' = Haier_setTemp(ac, 31) \/ ac' = Haier_setTemp(ac, 20)
    \/ ac' = Haier_setHealth(ac, TRUE) \/ ac' = Haier_setSleep(ac, FALSE)
    \/ ac' = Haier_setOnTimer(ac, 0) \/ ac' = Haier_setOffTimer(ac, 1440)
    \/ ac' = Haier_cancelTimers(ac) \/ ac' = Haier_setCurrTime(ac, 65535)
    \/ \E p \in {"Up", "?"} : ac' = Haier_setSwingV(ac, p)

Haier_TypeOK == ac \in Haier_Object

(* Fan speeds are read as they were set, timers in minutes of the day.  A  *)
(* message says what it was asked for last: after an off command it does   *)
(* so only as long as nothing else is set, so that a unit that is off is   *)
(* told to go on by a change of the temperature.                           *)
Haier_Rules ==
    /\ \A s \in 0..3 : Haier_getFan(Haier_setFan(ac, s)) = s
    /\ Haier_getOnTimer(ac) <= Haier_MaxTime /\ Haier_getOffTimer(ac) <= Haier_MaxTime
    /\ ac.Mode \in 0..4
    /\ LET off == Haier_setCommand(ac, "Off") IN
       \A t \in {20, 21} :
         Haier_toCommon(Haier_setTemp(off, t)).power <=> (t # Haier_getTemp(ac))

(* A state that was read is sent as it was read. *)
Haier_Rereads ==
    LET read == Haier_toCommon(ac) IN SameState(read, Haier_toCommon(Haier_haier(read)), {})

-----------------------------------------------------------------------------
(***************************************************************************)
(* ir_Haier.h, ir_Haier.cpp, class IRHaierAC176, and IRHaierACYRW02, which *)
(* is the same with the second half of the message left out.               *)
(***************************************************************************)
Haier176_Models == {"V9014557_A", "V9014557_B"}
Haier176_Modes == {"Auto", "Cool", "Dry", "Heat", "Fan"}
Haier176_MinTempC == 16
Haier176_MaxTempC == 30
Haier176_DefTempC == 25
Haier176_MinTempF == 60
Haier176_MaxTempF == 86
Haier176_Fans == {"High", "Med", "Low", "Auto"}
Haier176_SwingVs == {"Off", "Top", "Middle", "Bottom", "Down", "Auto"}
Haier176_SwingHs == {"Middle", "LeftMax", "Left", "Right", "RightMax", "Auto"}
Haier176_NoTimers == 0
Haier176_OffTimer == 1
Haier176_OnTimer == 2
Haier176_OnThenOffTimer == 4
Haier176_OffThenOnTimer == 5
Haier176_Buttons == {"TempUp", "TempDown", "SwingV", "SwingH", "Fan", "Power", "Mode",
                     "Health", "Turbo", "Sleep", "Lock", "CFAB"}
Haier176_LastMinute == 23 * 60 + 59

Haier176_Object == [Model : Haier176_Models, SwingV : Haier176_SwingVs, Temp : 0..15,
                    SwingH : Haier176_SwingHs,
                    Health : BOOLEAN, TimerMode : 0..7, Power : BOOLEAN,
                    OffMins : 0..Haier176_LastMinute, Fan : Haier176_Fans, Turbo : BOOLEAN,
                    Quiet : BOOLEAN, OnMins : 0..Haier176_LastMinute, Mode : Haier176_Modes,
                    Sleep : BOOLEAN, ExtraDegreeF : 0..1, UseFahrenheit : BOOLEAN,
                    Button : Haier176_Buttons, Lock : BOOLEAN]

Haier176_stateReset ==
    [Model |-> "V9014557_A", SwingV |-> "Off", Temp |-> Haier176_DefTempC - Haier176_MinTempC,
     SwingH |-> "Middle", Health |-> TRUE, TimerMode |-> Haier176_NoTimers,
     Power |-> TRUE, OffMins |-> 0, Fan |-> "Auto", Turbo |-> FALSE,
     Quiet |-> FALSE, OnMins |-> 0, Mode |-> "Auto", Sleep |-> FALSE,
     ExtraDegreeF |-> 0, UseFahrenheit |-> FALSE, Button |-> "Power",
     Lock |-> FALSE]

Haier176_setButton(a, button) ==
    IF button \in Haier176_Buttons THEN [a EXCEPT !.Button = button] ELSE a

Haier176_setModel(a, model) ==
    [a EXCEPT !.Button = "CFAB",
              !.Model = IF model = "V9014557_B" THEN model ELSE "V9014557_A"]

(* An unknown mode is Auto; turbo and quiet are for Cool and Heat. *)
Haier176_setMode(a, mode) ==
    LET m == IF mode \in Haier176_Modes THEN mode ELSE "Auto" IN
    [a EXCEPT !.Button = "Mode", !.Mode = m,
              !.Turbo = @ /\ m \in {"Cool", "Heat"},
              !.Quiet = @ /\ m \in {"Cool", "Heat"}]

Haier176_setUseFahrenheit(a, on) == [a EXCEPT !.UseFahrenheit = on]

(* 77 and 79 degrees Fahrenheit have no number of their own. *)
Haier176_getTemp(a) ==
    LET f == 2 * a.Temp + Haier176_MinTempF + a.ExtraDegreeF
        g == IF f >= 77 THEN f - 1 ELSE f
    IN CASE ~a.UseFahrenheit -> a.Temp + Haier176_MinTempC
         [] a.UseFahrenheit /\ g >= 79 -> g - 1
         [] OTHER -> g

Haier176_setTemp(a, degree, fahrenheit) ==
    LET old == Haier176_getTemp(a)
        t == Clamp(degree, Haier176_MinTempF, Haier176_MaxTempF)
               + (IF degree >= 77 THEN 1 ELSE 0) + (IF degree >= 79 THEN 1 ELSE 0)
        b == [a EXCEPT !.UseFahrenheit = fahrenheit,
                       !.Button = CASE a.UseFahrenheit # fahrenheit -> "CFAB"
                                    [] old > degree -> "TempDown"
                                    [] OTHER -> "TempUp"]
    IN CASE old = degree -> a
         [] old # degree /\ fahrenheit ->
              [b EXCEPT !.ExtraDegreeF = t % 2, !.Temp = (t - Haier176_MinTempF) \div 2]
         [] OTHER ->
              [b EXCEPT !.Temp = Clamp(degree, Haier176_MinTempC,
                                       Haier176_MaxTempC) - Haier176_MinTempC]

Haier176_setHealth(a, on) == [a EXCEPT !.Button = "Health", !.Health = on]
Haier176_setPower(a, on) == [a EXCEPT !.Button = "Power", !.Power = on]
Haier176_setSleep(a, on) == [a EXCEPT !.Button = "Sleep", !.Sleep = on]
Haier176_setLock(a, on) == [a EXCEPT !.Button = "Lock", !.Lock = on]

Haier176_setTurbo(a, on) ==
    IF a.Mode \in {"Cool", "Heat"}
      THEN [a EXCEPT !.Button = "Turbo", !.Turbo = on, !.Quiet = @ /\ ~on]
      ELSE a
Haier176_setQuiet(a, on) ==
    IF a.Mode \in {"Cool", "Heat"}
      THEN [a EXCEPT !.Button = "Turbo", !.Quiet = on, !.Turbo = @ /\ ~on]
      ELSE a

Haier176_setFan(a, speed) ==
    IF speed \in Haier176_Fans THEN [a EXCEPT !.Fan = speed, !.Button = "Fan"] ELSE a

(* In Heat the middle is the bottom, and the bottom is the middle if not. *)
Haier176_setSwingV(a, pos) ==
    IF pos \notin Haier176_SwingVs THEN a
    ELSE [a EXCEPT !.Button = "SwingV",
                   !.SwingV = CASE pos \notin {"Middle", "Bottom"} -> pos
                                [] a.Mode = "Heat" -> "Bottom"
                                [] OTHER -> "Middle"]

Haier176_setSwingH(a, pos) ==
    IF pos \in Haier176_SwingHs THEN [a EXCEPT !.SwingH = pos, !.Button = "SwingH"]
    ELSE a

(* Which timer comes first is which was set last. *)
Haier176_setOnTimer(a, mins) ==
    LET n == AtMost(mins, Haier176_LastMinute)
        on == n > 0
        also == a.TimerMode \in {Haier176_OnThenOffTimer, Haier176_OffThenOnTimer}
    IN [a EXCEPT !.OnMins = n,
                 !.TimerMode =
                    CASE on -> IF @ = Haier176_OffTimer \/ also THEN Haier176_OffThenOnTimer
                                                                ELSE Haier176_OnTimer
                      [] OTHER -> IF @ = Haier176_OffTimer \/ also THEN Haier176_OffTimer
                                                                   ELSE Haier176_NoTimers]

Haier176_setOffTimer(a, mins) ==
    LET n == AtMost(mins, Haier176_LastMinute)
        on == n > 0
        also == a.TimerMode \in {Haier176_OnThenOffTimer, Haier176_OffThenOnTimer}
    IN [a EXCEPT !.OffMins = n,
                 !.TimerMode =
                    CASE on -> IF @ = Haier176_OnTimer \/ also THEN Haier176_OnThenOffTimer
                                                               ELSE Haier176_OffTimer
                      [] OTHER -> IF @ = Haier176_OnTimer \/ also THEN Haier176_OnTimer
                                                                  ELSE Haier176_NoTimers]

Haier176_setTimerMode(a, mode) ==
    LET b == [a EXCEPT !.TimerMode = IF mode > Haier176_OffThenOnTimer THEN Haier176_NoTimers
                                                                       ELSE mode] IN
    CASE b.TimerMode = Haier176_NoTimers -> Haier176_setOffTimer(Haier176_setOnTimer(b, 0), 0)
      [] b.TimerMode = Haier176_OffTimer -> Haier176_setOnTimer(b, 0)
      [] b.TimerMode = Haier176_OnTimer -> Haier176_setOffTimer(b, 0)
      [] OTHER -> b

Haier176_convertMode(mode) == IF mode = "Off" THEN "Auto" ELSE mode
Haier176_convertFan(speed) ==
    CASE speed \in {"Min", "Low"} -> "Low" [] speed = "Medium" -> "Med"
      [] speed \in {"High", "Max"} -> "High" [] OTHER -> "Auto"
Haier176_toCommonFanSpeed(speed) ==
    CASE speed = "High" -> "Max" [] speed = "Med" -> "Medium"
      [] speed = "Low" -> "Min" [] OTHER -> "Auto"

Haier176_convertSwingV(position) ==
    CASE position \in {"Highest", "High"} -> "Top"
      [] position = "Middle" -> "Middle" [] position = "Low" -> "Down"
      [] position = "Lowest" -> "Bottom" [] position = "Off" -> "Off"
      [] OTHER -> "Auto"
Haier176_toCommonSwingV(pos) ==
    CASE pos = "Top" -> "Highest" [] pos = "Down" -> "Low"
      [] pos = "Bottom" -> "Lowest" [] OTHER -> pos

Haier176_convertSwingH(position) ==
    IF position \in Haier176_SwingHs THEN position ELSE "Middle"

Haier176_toCommon(a) ==
    [model |-> a.Model, power |-> a.Power, mode |-> a.Mode,
     celsius |-> ~a.UseFahrenheit, degrees |-> Haier176_getTemp(a),
     fan |-> Haier176_toCommonFanSpeed(a.Fan), swingv |-> Haier176_toCommonSwingV(a.SwingV),
     swingh |-> a.SwingH, filter |-> a.Health, sleep |-> a.Sleep,
     turbo |-> a.Turbo, quiet |-> a.Quiet]

(* setTemp is called without the unit, which is Celsius then. *)
Haier176_haierYrwo2(w, a) ==
    LET cooled == Haier176_setFan(Haier176_setTemp(Haier176_setUseFahrenheit(Haier176_setMode(a,
                                                                                              Haier176_convertMode(w.mode)),
                                                                             ~w.celsius),
                                                   w.degrees, FALSE), Haier176_convertFan(w.fan))
        swung == Haier176_setSwingH(Haier176_setSwingV(cooled, Haier176_convertSwingV(w.swingv)),
                                    Haier176_convertSwingH(w.swingh))
        turbo == Haier176_setTurbo(Haier176_setQuiet(swung, w.quiet), w.turbo)
    IN Haier176_setPower(Haier176_setSleep(Haier176_setHealth(turbo, w.filter), w.sleep),
                         w.power)

Haier176_haier176(w) == Haier176_haierYrwo2(w, Haier176_setModel(Haier176_stateReset, w.model))

Haier176_Wishes == [model : {"V9014557_B"}, power : BOOLEAN, mode : {"Off", "Heat"},
                    celsius : BOOLEAN, degrees : {16, 31, 77},
                    fan : {"Max"}, swingv : {"Middle", "Lowest"},
                    swingh : {"Off"}, turbo : {TRUE}, quiet : {TRUE},
                    filter : {FALSE}, sleep : {FALSE}]

Haier176_Init == ac \in {Haier176_stateReset} \cup {Haier176_haier176(w) : w \in Haier176_Wishes}

(* The timers and the other settings do not meet: they are set in an       *)
(* object that is new.                                                     *)
Haier176_Plain == [Haier176_stateReset EXCEPT !.OnMins = ac.OnMins, !.OffMins = ac.OffMins,
                                              !.TimerMode = ac.TimerMode]
Haier176_Untimed == ac.OnMins = 0 /\ ac.OffMins = 0 /\ ac.TimerMode = Haier176_NoTimers

Haier176_Next ==
    \/ /\ Haier176_Untimed
       /\ \/ \E b \in {"Lock", "?"} : ac' = Haier176_setButton(ac, b)
          \/ ac' = Haier176_setModel(ac, "?")
          \/ \E m \in {"Cool", "?"} : ac' = Haier176_setMode(ac, m)
          \/ ac' = Haier176_setUseFahrenheit(ac, TRUE)
          \/ ac' = Haier176_setTemp(ac, 79, TRUE) \/ ac' = Haier176_setTemp(ac, 20, FALSE)
          \/ ac' = Haier176_setTurbo(ac, TRUE) \/ ac' = Haier176_setQuiet(ac, TRUE)
          \/ ac' = Haier176_setFan(ac, "?") \/ ac' = Haier176_setSwingH(ac, "?")
          \/ \E p \in {"Bottom", "?"} : ac' = Haier176_setSwingV(ac, p)
          \/ ac' = Haier176_setHealth(ac, FALSE) \/ ac' = Haier176_setSleep(ac, FALSE)
          \/ ac' = Haier176_setLock(ac, FALSE) \/ ac' = Haier176_setPower(ac, TRUE)
    \/ /\ ac = Haier176_Plain
       /\ \/ \E n \in {0, 59, 1440} : ac' = Haier176_setOnTimer(ac, n)
          \/ \E n \in {0, 59} : ac' = Haier176_setOffTimer(ac, n)
          \/ \E m \in {0, 1, 2, 4, 5, 6} : ac' = Haier176_setTimerMode(ac, m)

Haier176_TypeOK == ac \in Haier176_Object

(* Turbo and quiet exclude each other and are for Cool and Heat; every     *)
(* degree Fahrenheit is read as it was set; a timer that is set is in the  *)
(* mode, both are when both are set.                                       *)
Haier176_Rules ==
    /\ ~(ac.Turbo /\ ac.Quiet)
    /\ ac.Turbo \/ ac.Quiet => ac.Mode \in {"Cool", "Heat"}
    /\ \A f \in {Haier176_MinTempF, 76, 77, 78, 79, 80, Haier176_MaxTempF} :
         Haier176_getTemp(Haier176_setTemp(ac, f, TRUE)) = f
    /\ ac.OnMins > 0 => ac.TimerMode \in {Haier176_OnTimer, Haier176_OnThenOffTimer,
                                          Haier176_OffThenOnTimer}
    /\ ac.OffMins > 0 => ac.TimerMode \in {Haier176_OffTimer, Haier176_OnThenOffTimer,
                                           Haier176_OffThenOnTimer}

(* A state that was read is sent as it was read, but for a temperature in  *)
(* Fahrenheit, which is sent as so many degrees Celsius, of which there    *)
(* are thirty (77 F is right: it is what the object starts with); and the  *)
(* lowest swing, which depends on the mode.                                *)
Haier176_Rereads ==
    LET read == Haier176_toCommon(ac)
        sent == Haier176_toCommon(Haier176_haier176(read))
    IN /\ SameState(read, sent,
                    (IF read.celsius \/ read.degrees = 77
                       THEN {} ELSE {"celsius", "degrees"})
                    \cup (IF (read.swingv = "Middle" /\ read.mode = "Heat")
                             \/ (read.swingv = "Lowest" /\ read.mode # "Heat")
                            THEN {"swingv"} ELSE {}))
       /\ ~read.celsius /\ read.degrees # 77
            => sent.celsius /\ sent.degrees = Haier176_MaxTempC

Haier176_PowerCycles ==
    LET Settings(a) == [Haier176_toCommon(a) EXCEPT !.power = TRUE] IN
    Settings(Haier176_setPower(Haier176_setPower(ac, FALSE), TRUE)) = Settings(ac)

-----------------------------------------------------------------------------
(***************************************************************************)
(* ir_Haier.h, ir_Haier.cpp, class IRHaierAC160.  Most of it repeats       *)
(* IRHaierAC176 (operators of A176 here); it has a swing of its own, clean *)
(* and auxiliary heating, no horizontal swing, and a button for the light, *)
(* which is a toggle.                                                      *)
(***************************************************************************)
Haier160_SwingVs == {"Off", "Top", "Highest", "High", "Middle", "Low", "Lowest", "Auto"}
Haier160_Buttons == Haier176_Buttons \cup {"Light", "AuxHeating", "Clean"}

Haier160_Object == [SwingV : Haier160_SwingVs, Temp : 0..15, Health : BOOLEAN,
                    TimerMode : 0..7, Power : BOOLEAN, AuxHeating : BOOLEAN,
                    OffMins : 0..Haier176_LastMinute, Fan : Haier176_Fans, Turbo : BOOLEAN,
                    Quiet : BOOLEAN, OnMins : 0..Haier176_LastMinute, Mode : Haier176_Modes,
                    Sleep : BOOLEAN, ExtraDegreeF : 0..1, Clean : BOOLEAN,
                    UseFahrenheit : BOOLEAN, Button : Haier160_Buttons, Lock : BOOLEAN,
                    Clean2 : BOOLEAN]

Haier160_stateReset ==
    [SwingV |-> "Off", Temp |-> 9, Health |-> FALSE, TimerMode |-> 0,
     Power |-> TRUE, AuxHeating |-> FALSE, OffMins |-> 0, Fan |-> "Auto",
     Turbo |-> FALSE, Quiet |-> FALSE, OnMins |-> 0, Mode |-> "Auto",
     Sleep |-> FALSE, ExtraDegreeF |-> 0, Clean |-> FALSE,
     UseFahrenheit |-> FALSE, Button |-> "Power", Lock |-> FALSE,
     Clean2 |-> FALSE]

(* The buttons of the light and of the heater cannot be set so. *)
Haier160_setButton(a, button) ==
    IF button \in Haier160_Buttons \ {"Light", "AuxHeating"}
      THEN [a EXCEPT !.Button = button] ELSE a

Haier160_setUseFahrenheit(a, on) == Haier176_setUseFahrenheit(a, on)
Haier160_getTemp(a) == Haier176_getTemp(a)
Haier160_setTemp(a, degree, fahrenheit) == Haier176_setTemp(a, degree, fahrenheit)
Haier160_setPower(a, on) == Haier176_setPower(a, on)
Haier160_setSleep(a, on) == Haier176_setSleep(a, on)
Haier160_setHealth(a, on) == Haier176_setHealth(a, on)
Haier160_setLock(a, on) == Haier176_setLock(a, on)
Haier160_setTurbo(a, on) == Haier176_setTurbo(a, on)
Haier160_setQuiet(a, on) == Haier176_setQuiet(a, on)
Haier160_setFan(a, speed) == Haier176_setFan(a, speed)
Haier160_setOnTimer(a, mins) == Haier176_setOnTimer(a, mins)
Haier160_setOffTimer(a, mins) == Haier176_setOffTimer(a, mins)
Haier160_setTimerMode(a, mode) == Haier176_setTimerMode(a, mode)

(* Heat has the heater on until it is switched off. *)
Haier160_setMode(a, mode) ==
    LET b == Haier176_setMode(a, mode) IN [b EXCEPT !.AuxHeating = b.Mode = "Heat"]

Haier160_setClean(a, on) == [a EXCEPT !.Button = "Clean", !.Clean = on, !.Clean2 = on]
Haier160_setAuxHeating(a, on) == [a EXCEPT !.Button = "AuxHeating", !.AuxHeating = on]

Haier160_setLightToggle(a, on) ==
    [a EXCEPT !.Button = IF on THEN "Light" ELSE "Power"]
Haier160_getLightToggle(a) == a.Button = "Light"

Haier160_setSwingV(a, pos) ==
    IF pos \in Haier160_SwingVs THEN [a EXCEPT !.Button = "SwingV", !.SwingV = pos]
    ELSE a

Haier160_convertMode(mode) == Haier176_convertMode(mode)
Haier160_convertFan(speed) == Haier176_convertFan(speed)
Haier160_toCommonFanSpeed(speed) == Haier176_toCommonFanSpeed(speed)

Haier160_convertSwingV(position) ==
    CASE position = "Highest" -> "Top"
      [] position \in {"High", "Middle", "Low", "Lowest", "Off"} -> position
      [] OTHER -> "Auto"
Haier160_toCommonSwingV(pos) == IF pos = "Top" THEN "Highest" ELSE pos

(* The light is that of the state before, off if that is unknown, toggled. *)
Haier160_toCommon(a, before) ==
    [power |-> a.Power, mode |-> a.Mode, celsius |-> ~a.UseFahrenheit,
     degrees |-> Haier160_getTemp(a), fan |-> Haier160_toCommonFanSpeed(a.Fan),
     swingv |-> Haier160_toCommonSwingV(a.SwingV), sleep |-> a.Sleep,
     turbo |-> a.Turbo, quiet |-> a.Quiet, clean |-> a.Clean /\ a.Clean2,
     light |-> before # Haier160_getLightToggle(a), filter |-> a.Health]

(* The toggle comes last: whatever is set after it takes its button away.  *)
Haier160_haier160(w, prevlight) ==
    LET cooled == Haier160_setFan(Haier160_setTemp(Haier160_setUseFahrenheit(Haier160_setMode(Haier160_stateReset,
                                                                                              Haier160_convertMode(w.mode)),
                                                                             ~w.celsius),
                                                   w.degrees, FALSE), Haier160_convertFan(w.fan))
        turbo == Haier160_setTurbo(Haier160_setQuiet(Haier160_setSwingV(cooled, Haier160_convertSwingV(w.swingv)),
                                                     w.quiet), w.turbo)
        rest == Haier160_setSleep(Haier160_setClean(Haier160_setHealth(turbo, w.filter),
                                                    w.clean), w.sleep)
    IN Haier160_setLightToggle(Haier160_setPower(rest, w.power), w.light # prevlight)

Haier160_Wishes == [power : BOOLEAN, mode : {"Off", "Heat"}, celsius : BOOLEAN,
                    degrees : {31, 79}, fan : {"Max"}, swingv : {"Highest"},
                    sleep : {FALSE}, turbo : BOOLEAN, quiet : {FALSE},
                    clean : {TRUE}, light : {TRUE}, filter : {FALSE}]

Haier160_Init == ac \in {Haier160_stateReset} \cup {Haier160_haier160(w, on) : w \in Haier160_Wishes, on \in BOOLEAN}

Haier160_Next ==
    \/ \E b \in {"Light", "TempUp"} : ac' = Haier160_setButton(ac, b)
    \/ \E m \in {"Cool", "?"} : ac' = Haier160_setMode(ac, m)
    \/ ac' = Haier160_setUseFahrenheit(ac, TRUE)
    \/ ac' = Haier160_setTemp(ac, 79, TRUE) \/ ac' = Haier160_setTemp(ac, 20, FALSE)
    \/ ac' = Haier160_setPower(ac, TRUE) \/ ac' = Haier160_setSleep(ac, FALSE)
    \/ ac' = Haier160_setHealth(ac, FALSE) \/ ac' = Haier160_setLock(ac, FALSE)
    \/ ac' = Haier160_setTurbo(ac, TRUE) \/ ac' = Haier160_setQuiet(ac, TRUE)
    \/ ac' = Haier160_setFan(ac, "?") \/ ac' = Haier160_setSwingV(ac, "?")
    \/ ac' = Haier160_setSwingV(ac, "Low")
    \/ ac' = Haier160_setClean(ac, FALSE) \/ ac' = Haier160_setAuxHeating(ac, FALSE)
    \/ \E on \in BOOLEAN : ac' = Haier160_setLightToggle(ac, on)
    \/ ac' = Haier160_setOnTimer(ac, 0) \/ ac' = Haier160_setOffTimer(ac, 0)
    \/ ac' = Haier160_setTimerMode(ac, 6)

Haier160_TypeOK == ac \in Haier160_Object

(* Both halves of the message agree about clean; the heater is on only in  *)
(* Heat - unless it is asked for - and in Heat until it is asked off; and  *)
(* the light is toggled by the last setter only.                           *)
Haier160_Rules ==
    /\ ac.Clean = ac.Clean2
    /\ ~(ac.Turbo /\ ac.Quiet)
    /\ ac.Turbo \/ ac.Quiet => ac.Mode \in {"Cool", "Heat"}
    /\ ac.AuxHeating => ac.Mode = "Heat"
    /\ Haier160_setMode(ac, "Heat").AuxHeating
    /\ LET lit == Haier160_setLightToggle(ac, TRUE) IN
       /\ Haier160_getLightToggle(lit)
       /\ \A b \in {Haier160_setPower(lit, TRUE), Haier160_setClean(lit, FALSE),
                    Haier160_setFan(lit, "Low"), Haier160_setMode(lit, "Cool")} :
            ~Haier160_getLightToggle(b)

(* A state that was read is sent as it was read, the light by the change   *)
(* from the state before; but for a temperature in Fahrenheit, as it is    *)
(* with IRHaierAC176.                                                      *)
Haier160_Rereads ==
    \A before \in BOOLEAN :
      LET read == Haier160_toCommon(ac, before) IN
      SameState(read, Haier160_toCommon(Haier160_haier160(read, before), before),
                IF read.celsius \/ read.degrees = 77
                  THEN {} ELSE {"celsius", "degrees"})

-----------------------------------------------------------------------------
Init ==
    \/ remote = "Haier" /\ Haier_Init
    \/ remote = "Haier176" /\ Haier176_Init
    \/ remote = "Haier160" /\ Haier160_Init

Next ==
    /\ UNCHANGED remote
    /\ \/ remote = "Haier" /\ Haier_Next
       \/ remote = "Haier176" /\ Haier176_Next
       \/ remote = "Haier160" /\ Haier160_Next

Spec == Init /\ [][Next]_<<remote, ac>>

(* The object stays one that its message can carry. *)
TypeOK ==
    CASE remote = "Haier" -> Haier_TypeOK
      [] remote = "Haier176" -> Haier176_TypeOK
      [] remote = "Haier160" -> Haier160_TypeOK
      [] OTHER -> TRUE

(* What a class says of its settings together, see there. *)
Rules ==
    CASE remote = "Haier" -> Haier_Rules
      [] remote = "Haier176" -> Haier176_Rules
      [] remote = "Haier160" -> Haier160_Rules
      [] OTHER -> TRUE

(* A state that was read from a message is sent as it was read, see there. *)
Rereads ==
    CASE remote = "Haier" -> Haier_Rereads
      [] remote = "Haier176" -> Haier176_Rereads
      [] remote = "Haier160" -> Haier160_Rereads
      [] OTHER -> TRUE

(* Off and on again is on as before, see there. *)
PowerCycles ==
    CASE remote = "Haier176" -> Haier176_PowerCycles
      [] OTHER -> TRUE
=============================================================================
