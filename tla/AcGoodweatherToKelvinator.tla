---------------------- MODULE AcGoodweatherToKelvinator -----------------------
(***************************************************************************)
(* The remotes of Goodweather, Gree and Kelvinator: one object of one of the*)
(* classes, `Goodweather', `Gree', `Kelvinator'. What belongs to a class has*)
(* its name in front, as in Goodweather_Next; after it come the names of the*)
(* source.                                                                 *)
(***************************************************************************)
EXTENDS StdAc

VARIABLES
    remote,    \* the class
    ac         \* its object

-----------------------------------------------------------------------------
(***************************************************************************)
(* ir_Goodweather.h, ir_Goodweather.cpp: the message names the button that *)
(* was pressed last, whatever else it says.                                *)
(***************************************************************************)
Goodweather_Modes == {"Auto", "Cool", "Dry", "Fan", "Heat"}
Goodweather_Fans == {"Auto", "High", "Med", "Low"}
Goodweather_Swings == {"Fast", "Slow", "Off"}
Goodweather_Commands == {"Power", "Mode", "UpTemp", "DownTemp", "Swing", "Fan", "Timer",
                         "AirFlow", "Hold", "Sleep", "Turbo", "Light"}

Goodweather_Object == [Power : BOOLEAN, Mode : Goodweather_Modes, Fan : Goodweather_Fans,
                       Temp : 0..15,
                       Swing : Goodweather_Swings, Light : BOOLEAN, Turbo : BOOLEAN, Sleep : BOOLEAN,
                       Command : Goodweather_Commands]

Goodweather_stateReset == [Power |-> FALSE, Mode |-> "Auto", Fan |-> "Auto", Temp |-> 0,
                           Swing |-> "Fast", Light |-> FALSE, Turbo |-> FALSE,
                           Sleep |-> FALSE, Command |-> "Power"]

Goodweather_setPower(a, on) == [a EXCEPT !.Power = on, !.Command = "Power"]

Goodweather_setTemp(a, temp) ==
    LET t == Clamp(temp, 16, 31) - 16 IN
    [a EXCEPT !.Temp = t,
              !.Command = CASE t > a.Temp -> "UpTemp"
                            [] t < a.Temp -> "DownTemp"
                            [] OTHER -> @]

Goodweather_setFan(a, speed) ==
    [a EXCEPT !.Fan = IF speed \in Goodweather_Fans THEN speed ELSE "Auto",
              !.Command = "Fan"]

Goodweather_setMode(a, mode) ==
    [a EXCEPT !.Mode = IF mode \in Goodweather_Modes THEN mode ELSE "Auto",
              !.Command = "Mode"]

Goodweather_setLight(a, toggle) == [a EXCEPT !.Light = toggle, !.Command = "Light"]
Goodweather_setSleep(a, toggle) == [a EXCEPT !.Sleep = toggle, !.Command = "Sleep"]
Goodweather_setTurbo(a, toggle) == [a EXCEPT !.Turbo = toggle, !.Command = "Turbo"]

Goodweather_setSwing(a, speed) ==
    [a EXCEPT !.Swing = IF speed \in Goodweather_Swings THEN speed ELSE "Off",
              !.Command = "Swing"]

Goodweather_setCommand(a, cmd) == IF cmd \in Goodweather_Commands THEN [a EXCEPT !.Command = cmd] ELSE a

Goodweather_convertMode(mode) == IF mode = "Off" THEN "Auto" ELSE mode

Goodweather_convertFan(fan) ==
    CASE fan \in {"Min", "Low"} -> "Low" [] fan = "Medium" -> "Med"
      [] fan \in {"High", "Max"} -> "High" [] OTHER -> "Auto"

Goodweather_toCommonFanSpeed(fan) ==
    CASE fan = "High" -> "Max" [] fan = "Med" -> "Medium"
      [] fan = "Low" -> "Min" [] OTHER -> "Auto"

Goodweather_toCommon(a) ==
    [power |-> a.Power, mode |-> a.Mode, degrees |-> a.Temp + 16,
     fan |-> Goodweather_toCommonFanSpeed(a.Fan), swingv |-> OnOff(a.Swing # "Off"),
     turbo |-> a.Turbo, light |-> a.Light, sleep |-> a.Sleep]

(* The power comes last, so that its button is the one in the message.     *)
Goodweather_goodweather(w) ==
    LET basic == Goodweather_setFan(Goodweather_setTemp(Goodweather_setMode(Goodweather_stateReset, Goodweather_convertMode(w.mode)),
                                                        w.degrees),
                                    Goodweather_convertFan(w.fan))
        airy == Goodweather_setTurbo(Goodweather_setSwing(basic,
                                                          IF w.swingv = "Off" THEN "Off" ELSE "Slow"),
                                     w.turbo)
    IN Goodweather_setPower(Goodweather_setSleep(Goodweather_setLight(airy, w.light), w.sleep),
                            w.power)

Goodweather_Wishes == [power : BOOLEAN, mode : opmode_t, degrees : {15, 22, 32},
                       fan : fanspeed_t, swingv : {"Off", "Auto", "High"},
                       turbo : BOOLEAN, light : BOOLEAN, sleep : BOOLEAN]

Goodweather_Init == ac \in {Goodweather_stateReset} \cup {Goodweather_goodweather(w) : w \in Goodweather_Wishes}

Goodweather_Next ==
    \/ \E on \in BOOLEAN : ac' = Goodweather_setPower(ac, on)
    \/ \E m \in {"Heat", "?"} : ac' = Goodweather_setMode(ac, m)
    \/ \E t \in {15, 32} : ac' = Goodweather_setTemp(ac, t)
    \/ \E f \in {"Low", "?"} : ac' = Goodweather_setFan(ac, f)
    \/ \E s \in Goodweather_Swings \cup {"?"} : ac' = Goodweather_setSwing(ac, s)
    \/ \E on \in BOOLEAN : ac' = Goodweather_setTurbo(ac, on)
    \/ \E on \in BOOLEAN : ac' = Goodweather_setLight(ac, on)
    \/ \E on \in BOOLEAN : ac' = Goodweather_setSleep(ac, on)
    \/ \E c \in {"Timer", "?"} : ac' = Goodweather_setCommand(ac, c)

Goodweather_TypeOK == ac \in Goodweather_Object

(* The button in a message that IRac sends is Power: it is the one that    *)
(* must work on a unit that is off.                                        *)
Goodweather_Rules == Goodweather_goodweather(Goodweather_toCommon(ac)).Command = "Power"

(* A state that was read is sent as it was read. *)
Goodweather_Rereads == SameState(Goodweather_toCommon(ac),
                                 Goodweather_toCommon(Goodweather_goodweather(Goodweather_toCommon(ac))), {})

-----------------------------------------------------------------------------
(***************************************************************************)
(* ir_Gree.h, ir_Gree.cpp: degrees Fahrenheit are sent as Celsius with one *)
(* bit for the half degree, Auto has one temperature and Dry one fan, and  *)
(* two of the models change what a setting does.                           *)
(***************************************************************************)
Gree_Models == {"YAW1F", "YBOFB", "YX1FSF"}
Gree_Modes == {"Auto", "Cool", "Dry", "Fan", "Heat", "Econo"}
Gree_ManualSwings == {"LastPos", "Up", "MiddleUp", "Middle", "MiddleDown", "Down"}
Gree_AutoSwings == {"Auto", "DownAuto", "MiddleAuto", "UpAuto"}
Gree_SwingsH == {"Off", "Auto", "LeftMax", "Left", "Middle", "Right", "RightMax"}
Gree_Flags == {"Light", "IFeel", "WiFi", "XFan", "Sleep", "Turbo"}

Gree_Object == [model : Gree_Models, Power : BOOLEAN, ModelA : BOOLEAN, Mode : Gree_Modes,
                Fan : 0..3, Temp : 0..14, ExtraDegreeF : 0..1,
                UseFahrenheit : BOOLEAN, SwingAuto : BOOLEAN,
                SwingV : Gree_ManualSwings \cup Gree_AutoSwings, SwingH : Gree_SwingsH,
                Econo : BOOLEAN, flags : SUBSET Gree_Flags,
                TimerEnabled : BOOLEAN, TimerHours : 0..24, TimerHalfHr : BOOLEAN]

Gree_stateReset(model) ==
    [model |-> model, Power |-> FALSE, ModelA |-> FALSE, Mode |-> "Auto",
     Fan |-> 0, Temp |-> 9, ExtraDegreeF |-> 0, UseFahrenheit |-> FALSE,
     SwingAuto |-> FALSE, SwingV |-> "LastPos", SwingH |-> "Off",
     Econo |-> FALSE, flags |-> {"Light"}, TimerEnabled |-> FALSE,
     TimerHours |-> 0, TimerHalfHr |-> FALSE]

Gree_setPower(a, on) ==
    [a EXCEPT !.Power = on, !.ModelA = on /\ a.model = "YAW1F"]

(* getRaw() calls it, so that a message follows the model it is sent for. *)
Gree_fixup(a) == Gree_setPower(a, a.Power)

Gree_setModel(a, model) ==
    [a EXCEPT !.model = IF model \in Gree_Models THEN model ELSE "YAW1F"]

Gree_setFlag(a, flag, on) ==
    [a EXCEPT !.flags = IF on THEN @ \cup {flag} ELSE @ \ {flag}]

(* Twice the degrees Celsius, whole, of Fahrenheit and the six tenths that *)
(* are added to it: 2 * (f + 0.6 - 32) * 5 / 9.                            *)
Gree_HalfDegrees(f) == (10 * f - 314) \div 9

Gree_Keep(a, half, fahrenheit) ==
         [a EXCEPT !.UseFahrenheit = fahrenheit, !.Temp = half \div 2 - 16,
                   !.ExtraDegreeF = half % 2]

Gree_setUseFahrenheit(a, on) == [a EXCEPT !.UseFahrenheit = on]

Gree_setTemp(a, temp, fahrenheit) ==
    LET half == IF fahrenheit THEN Gree_HalfDegrees(temp) ELSE 2 * temp IN
    Gree_Keep(a, IF a.Mode = "Auto" THEN 50 ELSE Clamp(half, 32, 60), fahrenheit)

Gree_getTemp(a) ==
    LET deg == 16 + a.Temp IN
    IF a.UseFahrenheit
      THEN AtLeast((9 * deg) \div 5 + 32 + a.ExtraDegreeF, 61) ELSE deg

Gree_setFan(a, speed) ==
    [a EXCEPT !.Fan = IF a.Mode = "Dry" THEN 1 ELSE AtMost(3, speed)]

(* An unknown mode is Auto too, without its temperature. *)
Gree_setMode(a, mode) ==
    LET b == CASE mode = "Auto" -> Gree_setTemp(a, 25, FALSE)
               [] mode = "Dry" -> Gree_setFan(a, 1)
               [] OTHER -> a
    IN [b EXCEPT !.Mode = IF mode \in Gree_Modes THEN mode ELSE "Auto"]

Gree_setEcono(a, on) ==
    LET b == [a EXCEPT !.Econo = on] IN
    IF on /\ a.model = "YX1FSF" THEN Gree_setMode(b, "Econo") ELSE b

Gree_setSwingVertical(a, automatic, position) ==
    [a EXCEPT !.SwingAuto = automatic,
              !.SwingV = IF automatic
                THEN IF position \in Gree_AutoSwings THEN position ELSE "Auto"
                ELSE IF position \in Gree_ManualSwings THEN position ELSE "LastPos"]

Gree_setSwingHorizontal(a, position) ==
    [a EXCEPT !.SwingH = IF position \in Gree_SwingsH THEN position ELSE "Off"]

Gree_setTimer(a, minutes) ==
    LET mins == AtMost(24 * 60, minutes) IN
    [a EXCEPT !.TimerEnabled = mins >= 30, !.TimerHours = mins \div 60,
              !.TimerHalfHr = mins % 60 >= 30]

Gree_getTimer(a) == 60 * a.TimerHours + IF a.TimerHalfHr THEN 30 ELSE 0

Gree_convertMode(mode) == IF mode = "Off" THEN "Auto" ELSE mode

Gree_convertFan(fan) ==
    CASE fan = "Min" -> 1 [] fan \in {"Low", "Medium"} -> 2
      [] fan \in {"High", "Max"} -> 3 [] OTHER -> 0

Gree_convertSwingV(swing) ==
    CASE swing = "Off" -> "LastPos" [] swing = "Highest" -> "Up"
      [] swing = "High" -> "MiddleUp" [] swing = "Middle" -> "Middle"
      [] swing = "Low" -> "MiddleDown" [] swing = "Lowest" -> "Down"
      [] OTHER -> "Auto"

Gree_convertSwingH(swing) == IF swing \in Gree_SwingsH THEN swing ELSE "Off"

Gree_toCommonMode(mode) == IF mode = "Econo" THEN "Auto" ELSE mode

Gree_toCommonFanSpeed(fan) ==
    CASE fan = 3 -> "Max" [] fan = 2 -> "Medium" [] fan = 1 -> "Min"
      [] OTHER -> "Auto"

Gree_toCommonSwingV(position) ==
    CASE position = "Up" -> "Highest" [] position = "MiddleUp" -> "High"
      [] position = "Middle" -> "Middle" [] position = "MiddleDown" -> "Low"
      [] position = "Down" -> "Lowest" [] OTHER -> "Off"

Gree_toCommon(a) ==
    [model |-> a.model, power |-> a.Power, mode |-> Gree_toCommonMode(a.Mode),
     celsius |-> ~a.UseFahrenheit, degrees |-> Gree_getTemp(a),
     fan |-> Gree_toCommonFanSpeed(a.Fan),
     swingv |-> IF a.SwingAuto THEN "Auto" ELSE Gree_toCommonSwingV(a.SwingV),
     swingh |-> a.SwingH, econo |-> a.Econo,
     flags |-> a.flags \ {"WiFi"}]

(* In `flags`: light, iFeel, turbo, clean (XFan) and sleep. *)
Gree_gree(w) ==
         LET moded == Gree_setMode(Gree_setPower(Gree_stateReset(w.model), w.power),
                                   Gree_convertMode(w.mode))
             fanned == Gree_setFan(Gree_setTemp(moded, w.degrees, ~w.celsius),
                                   Gree_convertFan(w.fan))
             swung == Gree_setSwingHorizontal(
                        Gree_setSwingVertical(fanned, w.swingv = "Auto",
                                              Gree_convertSwingV(w.swingv)),
                        Gree_convertSwingH(w.swingh))
         IN Gree_fixup(Gree_setEcono([swung EXCEPT !.flags = w.flags], w.econo))

Gree_Wishes == [model : Gree_Models, power : BOOLEAN, mode : opmode_t,
                celsius : BOOLEAN, degrees : {22, 70}, fan : {"Auto", "Max"}, swingv : {"Low"},
                swingh : {"Wide"}, econo : {FALSE}, flags : {{}, {"Sleep"}}]

Gree_Init == ac \in {Gree_stateReset(m) : m \in Gree_Models} \cup {Gree_gree(w) : w \in Gree_Wishes}

Gree_Next ==
    \/ \E on \in BOOLEAN : ac' = Gree_setPower(ac, on)
    \/ \E m \in Gree_Models \cup {"?"} : ac' = Gree_setModel(ac, m)
    \/ \E m \in Gree_Modes \cup {"?"} : ac' = Gree_setMode(ac, m)
    \/ \E t \in {70}, f \in BOOLEAN : ac' = Gree_setTemp(ac, t, f)
    \/ \E f \in {4} : ac' = Gree_setFan(ac, f)
    \/ \E on \in BOOLEAN : ac' = Gree_setEcono(ac, on)
    \/ \E on \in BOOLEAN : ac' = Gree_setUseFahrenheit(ac, on)
    \/ \E on \in BOOLEAN : ac' = Gree_setSwingVertical(ac, on, "Down")
    \/ ac' = Gree_setSwingHorizontal(ac, "?")
    \/ \E on \in BOOLEAN : ac' = Gree_setFlag(ac, "Sleep", on)
    \/ \E n \in {25 * 60} : ac' = Gree_setTimer(ac, n)

Gree_TypeOK == ac \in Gree_Object

(* Dry has its fan in whatever order mode and fan are set.  Outside Auto   *)
(* every degree Fahrenheit of the range comes back as it was set, "because *)
(* it works" (ir_Gree.cpp:242), but for 70 and 79, which come back as 69   *)
(* and 78.                                                                 *)
Gree_Rules ==
    /\ ac.Mode = "Dry" => ac.Fan = 1
    /\ ac.Mode # "Auto" =>
         \A f \in 61..86 : Gree_getTemp(Gree_setTemp(ac, f, TRUE)) =
                             IF f \in {70, 79} THEN f - 1 ELSE f
    /\ ac.TimerEnabled = (Gree_getTimer(ac) > 0)

(* A state that was read is sent as it was read, but that Auto, which is   *)
(* also what Econo is read as, has one temperature, and that the model     *)
(* with a mode for econo has Dry and its fan lost in it.                   *)
Gree_Rereads ==
    SameState(Gree_toCommon(ac), Gree_toCommon(Gree_gree(Gree_toCommon(ac))),
              (IF Gree_toCommonMode(ac.Mode) = "Auto" THEN {"degrees"} ELSE {})
              \cup (IF ac.model = "YX1FSF" /\ ac.Econo THEN {"mode", "degrees"}
                                                       ELSE {}))

-----------------------------------------------------------------------------
(***************************************************************************)
(* ir_Kelvinator.h, ir_Kelvinator.cpp: two swings share a bit, two fan     *)
(* fields a speed, and getRaw() drops XFan where it makes no sense.        *)
(***************************************************************************)
Kelvinator_Modes == {"Auto", "Cool", "Dry", "Fan", "Heat"}
Kelvinator_AutoSwings == {"Auto", "LowAuto", "MiddleAuto", "HighAuto"}
Kelvinator_ManualSwings == {"Highest", "UpperMiddle", "Middle", "LowerMiddle", "Lowest"}

Kelvinator_Object == [Power : BOOLEAN, Mode : Kelvinator_Modes, Temp : 0..14, BasicFan : 0..3,
                      Fan : 0..5, SwingAuto : BOOLEAN,
                      SwingV : Kelvinator_AutoSwings \cup Kelvinator_ManualSwings \cup {"Off"},
                      SwingH : BOOLEAN, Quiet : BOOLEAN, Turbo : BOOLEAN,
                      Light : BOOLEAN, IonFilter : BOOLEAN, XFan : BOOLEAN]

Kelvinator_stateReset == [Power |-> FALSE, Mode |-> "Auto", Temp |-> 0, BasicFan |-> 0,
                          Fan |-> 0, SwingAuto |-> FALSE, SwingV |-> "Off",
                          SwingH |-> FALSE, Quiet |-> FALSE, Turbo |-> FALSE,
                          Light |-> FALSE, IonFilter |-> FALSE, XFan |-> FALSE]

Kelvinator_setPower(a, on) == [a EXCEPT !.Power = on]
Kelvinator_setTemp(a, degrees) == [a EXCEPT !.Temp = Clamp(degrees, 16, 30) - 16]
Kelvinator_setQuiet(a, on) == [a EXCEPT !.Quiet = on]
Kelvinator_setTurbo(a, on) == [a EXCEPT !.Turbo = on]
Kelvinator_setLight(a, on) == [a EXCEPT !.Light = on]
Kelvinator_setIonFilter(a, on) == [a EXCEPT !.IonFilter = on]
Kelvinator_setXFan(a, on) == [a EXCEPT !.XFan = on]

(* A new speed ends turbo, the same speed does not. *)
Kelvinator_setFan(a, speed) ==
    LET fan == AtMost(5, speed) IN
    IF fan = a.Fan
      THEN a
      ELSE Kelvinator_setTurbo([a EXCEPT !.BasicFan = AtMost(3, fan), !.Fan = fan], FALSE)

Kelvinator_setMode(a, mode) ==
    IF mode \in {"Heat", "Cool", "Fan"}
      THEN [a EXCEPT !.Mode = mode]
      ELSE [Kelvinator_setTemp(a, 25) EXCEPT !.Mode = IF mode \in Kelvinator_Modes THEN mode
                                                                                   ELSE "Auto"]

(* The last bit of the position; it is set for the positions that move,    *)
(* and for two that do not.                                                *)
Kelvinator_LowBit(position) == position \in Kelvinator_AutoSwings \cup {"UpperMiddle",
                                                                        "LowerMiddle"}

Kelvinator_setSwingVertical(a, automatic, position) ==
    [a EXCEPT !.SwingAuto = automatic \/ a.SwingH,
              !.SwingV = IF automatic
                THEN IF position \in Kelvinator_AutoSwings THEN position ELSE "Auto"
                ELSE IF position \in Kelvinator_ManualSwings THEN position ELSE "Off"]

Kelvinator_setSwingHorizontal(a, on) ==
    [a EXCEPT !.SwingH = on, !.SwingAuto = on \/ Kelvinator_LowBit(a.SwingV)]

(* getRaw() changes the object; send() calls it. *)
Kelvinator_fixup(a) == IF a.Mode \in {"Cool", "Dry"} THEN a ELSE Kelvinator_setXFan(a, FALSE)

Kelvinator_convertMode(mode) == IF mode = "Off" THEN "Auto" ELSE mode

Kelvinator_convertSwingV(swing) ==
    CASE swing = "Highest" -> "Highest" [] swing = "High" -> "HighAuto"
      [] swing = "Middle" -> "Middle" [] swing = "Low" -> "LowAuto"
      [] swing = "Lowest" -> "Lowest" [] OTHER -> "Auto"

Kelvinator_toCommon(a) ==
    [power |-> a.Power, mode |-> a.Mode, degrees |-> a.Temp + 16,
     fan |-> FanOfNumber(a.Fan), swingv |-> OnOff(a.SwingV # "Off"),
     swingh |-> OnOff(a.SwingH), quiet |-> a.Quiet, turbo |-> a.Turbo,
     light |-> a.Light, filter |-> a.IonFilter, clean |-> a.XFan]

Kelvinator_kelvinator(w) ==
    LET basic == Kelvinator_setFan(Kelvinator_setTemp(Kelvinator_setMode(Kelvinator_setPower(Kelvinator_stateReset, w.power),
                                                                         Kelvinator_convertMode(w.mode)),
                                                      w.degrees),
                                   FanNumber(w.fan))
        airy == Kelvinator_setSwingHorizontal(Kelvinator_setSwingVertical(basic, w.swingv = "Auto",
                                                                          Kelvinator_convertSwingV(w.swingv)),
                                              w.swingh # "Off")
    IN Kelvinator_fixup(Kelvinator_setXFan(Kelvinator_setIonFilter(Kelvinator_setLight(Kelvinator_setTurbo(Kelvinator_setQuiet(airy, w.quiet),
                                                                                                           w.turbo),
                                                                                       w.light),
                                                                   w.filter),
                                           w.clean))

(* Settings that touch no other are turned on together. *)
Kelvinator_Wishes ==
    {w \in [power : BOOLEAN, mode : opmode_t, degrees : {15, 22, 31},
            fan : {"Auto", "Medium", "Max", "MediumHigh"}, swingv : swingv_t,
            swingh : {"Off", "Auto", "Left"}, quiet : BOOLEAN,
            turbo : BOOLEAN, light : BOOLEAN, filter : BOOLEAN,
            clean : BOOLEAN] :
       w.light = w.filter /\ w.light = w.quiet}

Kelvinator_Init == ac \in {Kelvinator_stateReset} \cup {Kelvinator_kelvinator(w) : w \in Kelvinator_Wishes}

Kelvinator_Next ==
    \/ \E on \in BOOLEAN : ac' = Kelvinator_setPower(ac, on)
    \/ \E m \in {"Auto", "Heat", "Cool"} : ac' = Kelvinator_setMode(ac, m)
    \/ \E t \in {15, 31} : ac' = Kelvinator_setTemp(ac, t)
    \/ \E f \in {0, 3, 6} : ac' = Kelvinator_setFan(ac, f)
    \/ \E auto \in BOOLEAN, p \in {"Off", "Auto", "LowAuto", "UpperMiddle"} :
         ac' = Kelvinator_setSwingVertical(ac, auto, p)
    \/ \E on \in BOOLEAN : ac' = Kelvinator_setSwingHorizontal(ac, on)
    \/ \E on \in BOOLEAN : ac' = Kelvinator_setTurbo(ac, on)
    \/ \E on \in BOOLEAN : ac' = Kelvinator_setXFan(ac, on)
    \/ ac' = Kelvinator_fixup(ac)

Kelvinator_TypeOK == ac \in Kelvinator_Object

(* The shared bit is set while one of the swings moves.  (It may be set    *)
(* for two positions at rest as well: the last bit of their code is one.)  *)
(* Both fan fields tell the same speed.                                    *)
Kelvinator_Rules ==
    /\ ac.SwingH \/ ac.SwingV \in Kelvinator_AutoSwings => ac.SwingAuto
    /\ ac.SwingAuto => ac.SwingH \/ Kelvinator_LowBit(ac.SwingV)
    /\ ac.BasicFan = AtMost(3, ac.Fan)

(* A message that was read is sent as it was read. *)
Kelvinator_Rereads ==
    LET read == Kelvinator_toCommon(Kelvinator_fixup(ac)) IN
    SameState(read, Kelvinator_toCommon(Kelvinator_kelvinator(read)), {})

-----------------------------------------------------------------------------
Init ==
    \/ remote = "Goodweather" /\ Goodweather_Init
    \/ remote = "Gree" /\ Gree_Init
    \/ remote = "Kelvinator" /\ Kelvinator_Init

Next ==
    /\ UNCHANGED remote
    /\ \/ remote = "Goodweather" /\ Goodweather_Next
       \/ remote = "Gree" /\ Gree_Next
       \/ remote = "Kelvinator" /\ Kelvinator_Next

Spec == Init /\ [][Next]_<<remote, ac>>

(* The object stays one that its message can carry. *)
TypeOK ==
    CASE remote = "Goodweather" -> Goodweather_TypeOK
      [] remote = "Gree" -> Gree_TypeOK
      [] remote = "Kelvinator" -> Kelvinator_TypeOK
      [] OTHER -> TRUE

(* What a class says of its settings together, see there. *)
Rules ==
    CASE remote = "Goodweather" -> Goodweather_Rules
      [] remote = "Gree" -> Gree_Rules
      [] remote = "Kelvinator" -> Kelvinator_Rules
      [] OTHER -> TRUE

(* A state that was read from a message is sent as it was read, see there. *)
Rereads ==
    CASE remote = "Goodweather" -> Goodweather_Rereads
      [] remote = "Gree" -> Gree_Rereads
      [] remote = "Kelvinator" -> Kelvinator_Rereads
      [] OTHER -> TRUE
=============================================================================
