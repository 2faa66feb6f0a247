--------------------------- MODULE AcToshibaToTruma ---------------------------
(***************************************************************************)
(* The remotes of Toshiba, Transcold, Trotec and Truma: one object of one of*)
(* the classes, `Toshiba', `Transcold', `Trotec', `Trotec3550', `Truma'.   *)
(* What belongs to a class has its name in front, as in Toshiba_Next; after*)
(* it come the names of the source.                                        *)
(***************************************************************************)
EXTENDS StdAc

VARIABLES
    remote,    \* the class
    ac         \* its object

-----------------------------------------------------------------------------
(***************************************************************************)
(* ir_Toshiba.h, ir_Toshiba.cpp: off is a mode, turbo and econo make the   *)
(* message longer by the byte that tells them, and the swing is told in a  *)
(* shorter message of its own.                                             *)
(***************************************************************************)
Toshiba_Modes == {"Auto", "Cool", "Dry", "Heat", "Fan"}
Toshiba_Swings == {"Step", "On", "Off", "Toggle"}
Toshiba_StateLength == 9
Toshiba_StateLengthLong == 10

Toshiba_Object == [Length : {Toshiba_StateLength, Toshiba_StateLengthLong}, Temp : 0..13,
                   Mode : Toshiba_Modes \cup {"Off"}, Fan : {0} \cup 2..6,
                   EcoTurbo : {"Turbo", "Econo", "Neither"}, Filter : BOOLEAN,
                   prev_mode : Toshiba_Modes, send_swing : BOOLEAN, swing_mode : Toshiba_Swings]

Toshiba_stateReset ==
    [Length |-> Toshiba_StateLength, Temp |-> 5, Mode |-> "Auto", Fan |-> 0,
     EcoTurbo |-> "Neither", Filter |-> FALSE, prev_mode |-> "Auto",
     send_swing |-> TRUE, swing_mode |-> "Off"]

Toshiba_setTemp(a, degrees) == [a EXCEPT !.Temp = Clamp(degrees, 17, 30) - 17]

(* Speeds 1 to 5 are told as 2 to 6. *)
Toshiba_setFan(a, speed) ==
    LET fan == AtMost(speed, 5) IN [a EXCEPT !.Fan = IF fan > 0 THEN fan + 1 ELSE 0]
Toshiba_getFan(a) == IF a.Fan = 0 THEN 0 ELSE a.Fan - 1

Toshiba_setSwing(a, setting) ==
    IF setting \in Toshiba_Swings
      THEN [a EXCEPT !.send_swing = TRUE, !.swing_mode = setting]
      ELSE a

Toshiba_getPower(a) == a.Mode # "Off"
Toshiba_getMode(a) == IF a.Mode = "Off" THEN a.prev_mode ELSE a.Mode

(* A mutant of setMode: off is taken for the mode to come back to. *)
Toshiba_setMode_OffKept(a, mode) ==
    LET m == IF mode \in Toshiba_Modes \cup {"Off"} THEN mode ELSE "Auto" IN
    [a EXCEPT !.Length = IF mode # a.prev_mode THEN Toshiba_StateLength ELSE @,
              !.Mode = m,
              !.prev_mode = IF m = "Off" THEN "Auto" ELSE m]

Toshiba_setMode(a, mode) ==
    LET m == IF mode \in Toshiba_Modes \cup {"Off"} THEN mode ELSE "Auto" IN
    [a EXCEPT !.Length = IF mode # a.prev_mode THEN Toshiba_StateLength ELSE @,
              !.Mode = m,
              !.prev_mode = IF m = "Off" THEN @ ELSE m]

Toshiba_setPower(a, on) ==
    CASE on /\ ~Toshiba_getPower(a) -> Toshiba_setMode(a, a.prev_mode)
      [] on /\ Toshiba_getPower(a) -> a
      [] OTHER -> Toshiba_setMode(a, "Off")

Toshiba_getTurbo(a) == a.Length = Toshiba_StateLengthLong /\ a.EcoTurbo = "Turbo"
Toshiba_getEcono(a) == a.Length = Toshiba_StateLengthLong /\ a.EcoTurbo = "Econo"

Toshiba_setEcoTurbo(a, what, on, other) ==
    CASE on -> [a EXCEPT !.EcoTurbo = what, !.Length = Toshiba_StateLengthLong]
      [] ~on /\ ~other -> [a EXCEPT !.Length = Toshiba_StateLength]
      [] OTHER -> a

Toshiba_setTurbo(a, on) == Toshiba_setEcoTurbo(a, "Turbo", on, Toshiba_getEcono(a))
Toshiba_setEcono(a, on) == Toshiba_setEcoTurbo(a, "Econo", on, Toshiba_getTurbo(a))

(* The filter is not told in the longer message: it ends turbo and econo. *)
Toshiba_setFilter(a, on) ==
    [a EXCEPT !.Filter = on, !.Length = IF on THEN Toshiba_StateLength ELSE @]

(* A second, short message tells the swing. *)
Toshiba_send(a) == [a EXCEPT !.send_swing = FALSE]

Toshiba_convertMode(mode) == mode

Toshiba_convertFan(fan) ==
    CASE fan = "Min" -> 1 [] fan = "Low" -> 2 [] fan = "Medium" -> 3
      [] fan = "High" -> 4 [] fan = "Max" -> 5 [] OTHER -> 0

Toshiba_toCommonFanSpeed(speed) ==
    CASE speed = 1 -> "Min" [] speed = 2 -> "Low" [] speed = 3 -> "Medium"
      [] speed = 4 -> "High" [] speed = 5 -> "Max" [] OTHER -> "Auto"

Toshiba_toCommon(a) ==
    [power |-> Toshiba_getPower(a), mode |-> Toshiba_getMode(a), degrees |-> a.Temp + 17,
     fan |-> Toshiba_toCommonFanSpeed(Toshiba_getFan(a)), turbo |-> Toshiba_getTurbo(a),
     econo |-> Toshiba_getEcono(a), filter |-> a.Filter]

(* The power last: off would take the mode from whatever follows it. *)
Toshiba_toshiba(w) ==
    LET basic == Toshiba_setFan(Toshiba_setTemp(Toshiba_setMode(Toshiba_stateReset,
                                                                Toshiba_convertMode(w.mode)),
                                                w.degrees),
                                Toshiba_convertFan(w.fan))
        airy == Toshiba_setSwing(basic, IF w.swing THEN "On" ELSE "Off")
    IN Toshiba_setPower(Toshiba_setFilter(Toshiba_setEcono(Toshiba_setTurbo(airy, w.turbo),
                                                           w.econo), w.filter),
                        w.power)

Toshiba_Wishes == [power : BOOLEAN, mode : opmode_t, degrees : {16, 24, 31},
                   fan : fanspeed_t, swing : BOOLEAN, turbo : BOOLEAN,
                   econo : BOOLEAN, filter : BOOLEAN]

Toshiba_Init == ac \in {Toshiba_stateReset} \cup {Toshiba_toshiba(w) : w \in Toshiba_Wishes}

Toshiba_Next ==
    \/ \E on \in BOOLEAN : ac' = Toshiba_setPower(ac, on)
    \/ \E m \in {"Heat", "Fan", "Off", "?"} : ac' = Toshiba_setMode(ac, m)
    \/ \E t \in {16, 31} : ac' = Toshiba_setTemp(ac, t)
    \/ \E f \in {0, 5, 6} : ac' = Toshiba_setFan(ac, f)
    \/ \E s \in {"On", "Toggle", "?"} : ac' = Toshiba_setSwing(ac, s)
    \/ \E on \in BOOLEAN : ac' = Toshiba_setTurbo(ac, on)
    \/ \E on \in BOOLEAN : ac' = Toshiba_setEcono(ac, on)
    \/ \E on \in BOOLEAN : ac' = Toshiba_setFilter(ac, on)
    \/ ac' = Toshiba_send(ac)

Toshiba_TypeOK == ac \in Toshiba_Object

(* The mode to come back to is the one that is on; while the unit is off no*)
(* order of the calls brings turbo or econo with a new mode.               *)
Toshiba_Rules ==
    /\ Toshiba_getPower(ac) => ac.prev_mode = ac.Mode
    /\ \A m \in Toshiba_Modes \ {ac.prev_mode} :
         ~Toshiba_getTurbo(Toshiba_setMode(ac, m)) /\ ~Toshiba_getEcono(Toshiba_setMode(ac, m))

Toshiba_Read == [f \in DOMAIN Toshiba_toCommon(ac) \cup {"swing"} |->
                   IF f = "swing" THEN FALSE ELSE Toshiba_toCommon(ac)[f]]

(* A state that was read is sent as it was read, but the filter ends turbo *)
(* and econo however the other remote told them together.                  *)
Toshiba_Rereads == SameState(Toshiba_toCommon(ac),
                             Toshiba_toCommon(Toshiba_toshiba(Toshiba_Read)),
                             IF ac.Filter THEN {"turbo", "econo"} ELSE {})

(* Switched off and on again the remote says what it said before, but for  *)
(* turbo and econo: off is a new mode.                                     *)
Toshiba_PowerCycles ==
    Toshiba_getPower(ac) =>
      SameState(Toshiba_toCommon(ac),
                Toshiba_toCommon(Toshiba_setPower(Toshiba_setPower(ac, FALSE), TRUE)),
                {"turbo", "econo"})

-----------------------------------------------------------------------------
(***************************************************************************)
(* ir_Transcold.h, ir_Transcold.cpp: off and swing are messages of their   *)
(* own, kept beside the state, and Fan is Dry with a temperature that no   *)
(* other mode has (0 here: the code's four bits are the number inverted    *)
(* and reversed).                                                          *)
(***************************************************************************)
Transcold_Modes == {"Cool", "Dry", "Auto", "Heat"}
Transcold_Fans == {"Min", "Med", "Max", "Auto", "Auto0", "ZoneFollow", "Fixed"}
Transcold_FanTempCode == 0

Transcold_Object == [Temp : 0..13, Mode : Transcold_Modes, Fan : Transcold_Fans,
                     special_state : {"Off", "Swing", "KnownGood"}, swingFlag : BOOLEAN]

(* 0xE96554. *)
Transcold_stateReset == [Temp |-> 5, Mode |-> "Cool", Fan |-> "Min",
                         special_state |-> "Off", swingFlag |-> FALSE]

Transcold_isSpecialState(a) == a.special_state \in {"Off", "Swing"}

Transcold_setTemp(a, desired) == [a EXCEPT !.Temp = Clamp(desired, 18, 30) - 17]
Transcold_getTemp(a) == a.Temp + 17

Transcold_getPower(a) == a.special_state # "Off"
Transcold_setPower(a, on) == [a EXCEPT !.special_state = IF on THEN "KnownGood" ELSE "Off"]

Transcold_setSwing(a) == [a EXCEPT !.special_state = "Swing", !.swingFlag = ~@]

(* After a command the state is what is sent next. *)
Transcold_send(a) ==
              IF Transcold_isSpecialState(a) THEN [a EXCEPT !.special_state = "KnownGood"] ELSE a

Transcold_getMode(a) == IF a.Mode = "Dry" /\ a.Temp = Transcold_FanTempCode THEN "Fan" ELSE a.Mode

Transcold_setMode(a, mode) ==
    LET m == IF mode \in Transcold_Modes \cup {"Fan"} THEN mode ELSE "Auto"
        b == [a EXCEPT !.Fan = IF m \in {"Auto", "Dry"} THEN "Auto0"
                                                        ELSE "Auto"]
    IN IF m = "Fan" THEN [b EXCEPT !.Mode = "Dry", !.Temp = Transcold_FanTempCode]
                    ELSE [Transcold_setTemp(b, Transcold_getTemp(b)) EXCEPT !.Mode = m]

(* One code for the automatic fan in Auto and Dry, another elsewhere. *)
Transcold_setFan(a, speed) ==
    [a EXCEPT !.Fan =
       CASE speed \in {"Auto", "Auto0"} ->
              IF Transcold_getMode(a) \in {"Auto", "Dry"} THEN "Auto0" ELSE "Auto"
         [] speed \in Transcold_Fans \ {"Auto", "Auto0"} -> speed
         [] OTHER -> "Auto"]

Transcold_convertMode(mode) ==
    IF mode \in {"Cool", "Heat", "Dry", "Fan"} THEN mode ELSE "Auto"

Transcold_convertFan(fan) ==
    CASE fan \in {"Min", "Low"} -> "Min" [] fan = "Medium" -> "Med"
      [] fan \in {"High", "Max"} -> "Max" [] OTHER -> "Auto"

Transcold_toCommonFanSpeed(fan) ==
    CASE fan = "Med" -> "Medium" [] fan \in {"Max", "Min"} -> fan
      [] OTHER -> "Auto"

(* The settings of a message that is no command. *)
Transcold_toCommon(a) ==
    [power |-> Transcold_getPower(a), mode |-> Transcold_getMode(a),
     degrees |-> Transcold_getTemp(a),
     fan |-> Transcold_toCommonFanSpeed(a.Fan)]

(* The swing command, when there is one, is sent before the state. *)
Transcold_transcold(w) ==
    LET on == Transcold_setFan(Transcold_setTemp(Transcold_setMode(Transcold_setPower(Transcold_stateReset, TRUE),
                                                                   Transcold_convertMode(w.mode)),
                                                 w.degrees),
                               Transcold_convertFan(w.fan))
    IN CASE ~w.power -> Transcold_setPower(Transcold_stateReset, FALSE)
         [] w.power /\ w.swing -> Transcold_send(Transcold_setSwing(on))
         [] OTHER -> on

Transcold_Wishes == [power : BOOLEAN, mode : opmode_t, degrees : Around(18, 30),
                     fan : fanspeed_t, swing : BOOLEAN]

Transcold_Init == ac \in {Transcold_stateReset} \cup {Transcold_transcold(w) : w \in Transcold_Wishes}

Transcold_Next ==
    \/ \E on \in BOOLEAN : ac' = Transcold_setPower(ac, on)
    \/ \E m \in Transcold_Modes \cup {"Fan", "?"} : ac' = Transcold_setMode(ac, m)
    \/ \E t \in Around(18, 30) : ac' = Transcold_setTemp(ac, t)
    \/ \E f \in Transcold_Fans \cup {"?"} : ac' = Transcold_setFan(ac, f)
    \/ ac' = Transcold_setSwing(ac)
    \/ ac' = Transcold_send(ac)

Transcold_TypeOK == ac \in Transcold_Object

(* The temperature that stands for Fan is told with Dry alone, so that the *)
(* mode that was set last is the one that is told, whatever was set before.*)
Transcold_Rules ==
    /\ ac.Temp = Transcold_FanTempCode => ac.Mode = "Dry"
    /\ \A m \in Transcold_Modes \cup {"Fan"} : Transcold_getMode(Transcold_setMode(ac, m)) = m

Transcold_Again == Transcold_transcold([power |-> Transcold_getPower(ac),
                                        mode |-> Transcold_getMode(ac),
                                        degrees |-> Transcold_getTemp(ac), swing |-> FALSE,
                                        fan |-> Transcold_toCommonFanSpeed(ac.Fan)])

(* A state that was read is sent as it was read, unless it is Fan. *)
Transcold_Rereads ==
    SameState(Transcold_toCommon(ac), Transcold_toCommon(Transcold_Again),
              IF Transcold_getMode(ac) = "Fan" THEN {"mode", "degrees"} ELSE {})

-----------------------------------------------------------------------------
(***************************************************************************)
(* ir_Trotec.h, ir_Trotec.cpp, class IRTrotecESP: four modes, three speeds *)
(* and a timer of whole hours.                                             *)
(***************************************************************************)
Trotec_Auto == 0
Trotec_Cool == 1
Trotec_Dry == 2
Trotec_Fan == 3
Trotec_FanHigh == 3
Trotec_MaxTimer == 23

Trotec_Object == [Power : BOOLEAN, Mode : Trotec_Auto..Trotec_Fan, Speed : 0..Trotec_FanHigh,
                  Temp : 0..15,
                  Sleep : BOOLEAN, Timer : 0..1, Hours : 0..Trotec_MaxTimer]

Trotec_setPower(a, on) == [a EXCEPT !.Power = on]
Trotec_setSpeed(a, fan) == [a EXCEPT !.Speed = AtMost(fan, Trotec_FanHigh)]
Trotec_setMode(a, mode) == [a EXCEPT !.Mode = IF mode > Trotec_Fan THEN Trotec_Auto ELSE mode]
Trotec_setTemp(a, celsius) == [a EXCEPT !.Temp = Clamp(celsius, 18, 32) - 18]
Trotec_setSleep(a, on) == [a EXCEPT !.Sleep = on]

(* A mutant of setTimer: the hours are not limited. *)
Trotec_setTimer_Unlimited(a, timer) == [a EXCEPT !.Timer = timer % 2, !.Hours = timer]

(* The number of hours is assigned to the bit that switches the timer on,  *)
(* which keeps its lowest bit.                                             *)
Trotec_setTimer(a, timer) ==
    [a EXCEPT !.Timer = timer % 2, !.Hours = AtMost(timer, Trotec_MaxTimer)]

Trotec_stateReset == Trotec_setTemp([Power |-> FALSE, Mode |-> Trotec_Auto, Speed |-> 2,
                                     Temp |-> 0,
                                     Sleep |-> FALSE, Timer |-> 0, Hours |-> 0], 25)

Trotec_convertMode(mode) ==
    CASE mode = "Cool" -> Trotec_Cool [] mode = "Dry" -> Trotec_Dry [] mode = "Fan" -> Trotec_Fan
      [] OTHER -> Trotec_Auto

Trotec_convertFan(fan) ==
    CASE fan \in {"Min", "Low"} -> 1 [] fan \in {"High", "Max"} -> 3
      [] OTHER -> 2

Trotec_toCommonMode(mode) ==
    CASE mode = Trotec_Cool -> "Cool" [] mode = Trotec_Dry -> "Dry" [] mode = Trotec_Fan -> "Fan"
      [] OTHER -> "Auto"

Trotec_toCommonFanSpeed(fan) ==
    CASE fan = 3 -> "Max" [] fan = 2 -> "Medium" [] fan = 1 -> "Min"
      [] OTHER -> "Auto"

Trotec_toCommon(a) ==
    [power |-> a.Power, mode |-> Trotec_toCommonMode(a.Mode), degrees |-> a.Temp + 18,
     fan |-> Trotec_toCommonFanSpeed(a.Speed), sleep |-> a.Sleep]

Trotec_trotec(w) ==
    Trotec_setSleep(Trotec_setSpeed(Trotec_setTemp(Trotec_setMode(Trotec_setPower(Trotec_stateReset, w.power),
                                                                  Trotec_convertMode(w.mode)), w.degrees),
                                    Trotec_convertFan(w.fan)), w.sleep)

Trotec_Wishes == [power : BOOLEAN, mode : opmode_t, degrees : Around(18, 32),
                  fan : fanspeed_t, sleep : BOOLEAN]

Trotec_Init == ac \in {Trotec_stateReset} \cup {Trotec_trotec(w) : w \in Trotec_Wishes}

Trotec_Next ==
    \/ \E on \in BOOLEAN : ac' = Trotec_setPower(ac, on) \/ ac' = Trotec_setSleep(ac, on)
    \/ \E f \in {0, 4} : ac' = Trotec_setSpeed(ac, f)
    \/ \E m \in {0, 4} : ac' = Trotec_setMode(ac, m)
    \/ \E t \in {17, 33} : ac' = Trotec_setTemp(ac, t)
    \/ \E h \in {0, 1, 2, 23, 24} : ac' = Trotec_setTimer(ac, h)

Trotec_TypeOK == ac \in Trotec_Object

(* The timer's bit says whether the hours count.  It does so for an odd    *)
(* number of hours only, and 24 of them are 23 that do not count.          *)
Trotec_Rules ==
    /\ ac.Timer = 1 => ac.Hours > 0
    /\ ac.Hours \in 1..(Trotec_MaxTimer - 1) => (ac.Timer = 1 <=> ac.Hours % 2 = 1)

(* A state that was read is sent as it was read, but for the automatic     *)
(* speed, which is sent as the medium one.                                 *)
Trotec_Rereads ==
    LET read == Trotec_toCommon(ac) IN
    SameState(read, Trotec_toCommon(Trotec_trotec(read)),
              IF read.fan = "Auto" THEN {"fan"} ELSE {})

-----------------------------------------------------------------------------
(***************************************************************************)
(* ir_Trotec.h, ir_Trotec.cpp, class IRTrotec3550: its message carries the *)
(* temperature in both units.                                              *)
(***************************************************************************)
Trotec3550_Modes == {"Auto", "Cool", "Dry", "Fan"}
Trotec3550_MinTempC == 16
Trotec3550_MaxTempC == 30
Trotec3550_MinTempF == 59
Trotec3550_MaxTempF == 86

Trotec3550_Object == [Power : BOOLEAN, Mode : Trotec3550_Modes, Fan : 0..3, SwingV : BOOLEAN,
                      Celsius : BOOLEAN, TempC : 0..15, TempF : 0..31,
                      TimerSet : BOOLEAN, TimerHrs : 0..15]

Trotec3550_setPower(a, on) == [a EXCEPT !.Power = on]
Trotec3550_setFan(a, fan) == [a EXCEPT !.Fan = AtMost(fan, 3)]
Trotec3550_setMode(a, mode) == [a EXCEPT !.Mode = IF mode \in Trotec3550_Modes THEN mode ELSE "Auto"]
Trotec3550_setTempUnit(a, celsius) == [a EXCEPT !.Celsius = celsius]
Trotec3550_setSwingV(a, on) == [a EXCEPT !.SwingV = on]

Trotec3550_setTimer(a, mins) ==
    [a EXCEPT !.TimerSet = mins > 0, !.TimerHrs = AtMost(mins, 480) \div 60]

(* Whole degrees above the other unit's minimum: a float cut to a number.  *)
Trotec3550_AboveMinF(celsius) == (9 * celsius) \div 5 + 32 - Trotec3550_MinTempF
Trotec3550_AboveMinC(fahrenheit) ==
    IF fahrenheit < 61 THEN 0 ELSE (5 * (fahrenheit - 32)) \div 9 - Trotec3550_MinTempC

(* 59F are 15C, one below the minimum: a float of -1 cast to an unsigned   *)
(* field is undefined, and `cast` is what comes of it.                     *)
Trotec3550_setTemp(a, degrees, celsius, cast) ==
    LET c == Clamp(degrees, Trotec3550_MinTempC, Trotec3550_MaxTempC)
        f == Clamp(degrees, Trotec3550_MinTempF, Trotec3550_MaxTempF)
        b == Trotec3550_setTempUnit(a, celsius)
    IN IF celsius
         THEN [b EXCEPT !.TempC = c - Trotec3550_MinTempC, !.TempF = Trotec3550_AboveMinF(c)]
         ELSE [b EXCEPT !.TempF = f - Trotec3550_MinTempF,
                        !.TempC = IF f = Trotec3550_MinTempF THEN cast ELSE Trotec3550_AboveMinC(f)]

Trotec3550_getTemp(a) == IF a.Celsius THEN a.TempC + Trotec3550_MinTempC ELSE a.TempF + Trotec3550_MinTempF

(* 0x55, 0x60, 0x00, 0x0D, 0x00, 0x00, 0x10, 0x88, 0x5A. *)
Trotec3550_stateReset == [Power |-> FALSE, Mode |-> "Auto", Fan |-> 1, SwingV |-> FALSE,
                          Celsius |-> TRUE, TempC |-> 6, TempF |-> 13,
                          TimerSet |-> FALSE, TimerHrs |-> 0]

Trotec3550_convertMode(mode) == IF mode \in {"Cool", "Dry", "Fan"} THEN mode ELSE "Auto"
Trotec3550_toCommonMode(mode) == mode

Trotec3550_convertFan(fan) ==
    CASE fan \in {"Min", "Low"} -> 1 [] fan \in {"High", "Max"} -> 3
      [] OTHER -> 2

Trotec3550_toCommonFanSpeed(fan) ==
    CASE fan = 3 -> "Max" [] fan = 2 -> "Medium" [] fan = 1 -> "Min"
      [] OTHER -> "Auto"

Trotec3550_toCommon(a) ==
    [power |-> a.Power, mode |-> Trotec3550_toCommonMode(a.Mode), celsius |-> a.Celsius,
     degrees |-> Trotec3550_getTemp(a), fan |-> Trotec3550_toCommonFanSpeed(a.Fan),
     swingv |-> OnOff(a.SwingV)]

Trotec3550_trotec3550(w, cast) ==
    Trotec3550_setSwingV(Trotec3550_setFan(Trotec3550_setTemp(Trotec3550_setMode(Trotec3550_setPower(Trotec3550_stateReset, w.power),
                                                                                 Trotec3550_convertMode(w.mode)),
                                                              w.degrees, w.celsius, cast),
                                           Trotec3550_convertFan(w.fan)), w.swingv # "Off")

Trotec3550_Wishes == [power : BOOLEAN, mode : opmode_t, celsius : {TRUE},
                      degrees : Around(Trotec3550_MinTempC,
                                       Trotec3550_MaxTempC), fan : fanspeed_t,
                      swingv : {"Off", "Low"}]
                     \cup
                     [power : {TRUE}, mode : {"Cool"}, celsius : {FALSE},
                      degrees : (Trotec3550_MinTempF - 1)..(Trotec3550_MaxTempF + 1), fan : {"Auto"},
                      swingv : {"Off"}]

Trotec3550_Casts == {0, 15}

Trotec3550_Init == ac \in {Trotec3550_stateReset} \cup {Trotec3550_trotec3550(w, n) : w \in Trotec3550_Wishes, n \in Trotec3550_Casts}

Trotec3550_Next ==
    \/ \E on \in BOOLEAN : ac' = Trotec3550_setPower(ac, on) \/ ac' = Trotec3550_setTempUnit(ac, on)
    \/ ac' = Trotec3550_setSwingV(ac, FALSE)
    \/ \E f \in {0, 4} : ac' = Trotec3550_setFan(ac, f)
    \/ ac' = Trotec3550_setMode(ac, "?")
    \/ \E n \in Trotec3550_Casts, t \in {59, 77, 87} : ac' = Trotec3550_setTemp(ac, t, FALSE, n)
    \/ \E t \in {15, 25} : ac' = Trotec3550_setTemp(ac, t, TRUE, 0)
    \/ \E mins \in {0, 1, 120, 600} : ac' = Trotec3550_setTimer(ac, mins)

Trotec3550_TypeOK == ac \in Trotec3550_Object

(* The two units agree to within a degree of Celsius, so that a change of  *)
(* the unit alone tells the same temperature, but for 59F; a timer's hours *)
(* are hours of one that is set.                                           *)
Trotec3550_Rules ==
    /\ LET tenths == 18 * (ac.TempC + Trotec3550_MinTempC) + 320
           f == 10 * (ac.TempF + Trotec3550_MinTempF)
       IN ac.TempF # 0 => f - tenths \in -10..18
    /\ ac.TimerHrs > 0 => ac.TimerSet

(* A state that was read is sent as it was read, but for the automatic     *)
(* speed and, where the cast of -1 made 31C of 59F, the temperature.       *)
Trotec3550_Rereads ==
    LET read == Trotec3550_toCommon(ac) IN
    \A n \in Trotec3550_Casts :
      SameState(read, Trotec3550_toCommon(Trotec3550_trotec3550(read, n)),
                (IF read.fan = "Auto" THEN {"fan"} ELSE {})
                \cup (IF ac.TempC = 15 THEN {"degrees"} ELSE {}))

-----------------------------------------------------------------------------
(***************************************************************************)
(* ir_Truma.h, ir_Truma.cpp: a switched off unit is told the mode Fan, so  *)
(* the object keeps the mode and the fan beside the message.               *)
(***************************************************************************)
Truma_Modes == {"Auto", "Cool", "Fan"}
Truma_Speeds == {"High", "Med", "Low"}

Truma_Object == [PowerOff : BOOLEAN, Mode : Truma_Modes, Fan : Truma_Speeds \cup {"Quiet"},
                 Temp : 6..21, lastfan : Truma_Speeds, lastmode : Truma_Modes]

Truma_stateReset == [PowerOff |-> TRUE, Mode |-> "Fan", Fan |-> "High", Temp |-> 6,
                     lastfan |-> "High", lastmode |-> "Fan"]

Truma_setPower(a, on) ==
    [a EXCEPT !.PowerOff = ~on, !.Mode = IF on THEN a.lastmode ELSE "Fan"]

Truma_setFan(a, speed) ==
    CASE speed \in Truma_Speeds -> [a EXCEPT !.Fan = speed, !.lastfan = speed]
      [] speed = "Quiet" -> IF a.Mode = "Cool" THEN [a EXCEPT !.Fan = "Quiet"]
                                               ELSE a
      [] OTHER -> [a EXCEPT !.Fan = "High", !.lastfan = "High"]

Truma_getQuiet(a) == a.Fan = "Quiet"

(* A mutant of setMode: quiet survives outside cool. *)
Truma_setMode_KeepQuiet(a, mode) ==
    LET m == IF mode \in Truma_Modes THEN mode ELSE "Auto" IN
    [a EXCEPT !.Mode = IF a.PowerOff THEN "Fan" ELSE m, !.lastmode = m]

Truma_setMode(a, mode) ==
    LET m == IF mode \in Truma_Modes THEN mode ELSE "Auto"
        b == IF m # "Cool" /\ Truma_getQuiet(a) THEN Truma_setFan(a, "High") ELSE a
    IN [b EXCEPT !.Mode = IF a.PowerOff THEN "Fan" ELSE m, !.lastmode = m]

Truma_setTemp(a, celsius) == [a EXCEPT !.Temp = Clamp(celsius, 16, 31) - 10]

Truma_setQuiet(a, on) ==
    Truma_setFan(a, IF on /\ a.Mode = "Cool" THEN "Quiet" ELSE a.lastfan)

Truma_convertMode(mode) == IF mode \in {"Cool", "Fan"} THEN mode ELSE "Auto"

Truma_convertFan(fan) ==
    CASE fan = "Min" -> "Quiet" [] fan = "Low" -> "Low"
      [] fan = "Medium" -> "Med" [] OTHER -> "High"

Truma_toCommonFanSpeed(fan) ==
    CASE fan = "Med" -> "Medium" [] fan = "Low" -> "Low"
      [] fan = "Quiet" -> "Min" [] OTHER -> "High"

Truma_toCommon(a) ==
    [power |-> ~a.PowerOff, mode |-> a.Mode, degrees |-> a.Temp + 10,
     fan |-> Truma_toCommonFanSpeed(a.Fan), quiet |-> Truma_getQuiet(a)]

Truma_truma(w) ==
    Truma_setQuiet(Truma_setFan(Truma_setTemp(Truma_setMode(Truma_setPower(Truma_stateReset,
                                                                           w.power),
                                                            Truma_convertMode(w.mode)),
                                              w.degrees),
                                Truma_convertFan(w.fan)),
                   w.quiet)

Truma_Wishes == [power : BOOLEAN, mode : opmode_t, degrees : Around(16, 31),
                 fan : fanspeed_t, quiet : BOOLEAN]

(* A new object, or one that IRac has set. *)
Truma_Init == ac \in {Truma_stateReset} \cup {Truma_truma(w) : w \in Truma_Wishes}

Truma_Next ==
    \/ \E on \in BOOLEAN : ac' = Truma_setPower(ac, on)
    \/ \E m \in Truma_Modes \cup {"?"} : ac' = Truma_setMode(ac, m)
    \/ \E t \in Around(16, 31) : ac' = Truma_setTemp(ac, t)
    \/ \E f \in Truma_Speeds \cup {"Quiet", "?"} : ac' = Truma_setFan(ac, f)
    \/ \E on \in BOOLEAN : ac' = Truma_setQuiet(ac, on)

Truma_TypeOK == ac \in Truma_Object

(* "Off temporarily sets mode to Fan" (ir_Truma.cpp:173): the mode that is  *)
(* told is the one asked for exactly while the unit is on.  "Can only have  *)
(* quiet in Cool" (208): so that a power cycle cannot bring quiet into      *)
(* another mode, the kept mode has to be Cool as well.                      *)
Truma_Rules ==
    /\ ac.Mode = IF ac.PowerOff THEN "Fan" ELSE ac.lastmode
    /\ Truma_getQuiet(ac) => ac.lastmode = "Cool"
    /\ ~Truma_getQuiet(ac) => ac.Fan = ac.lastfan

(* A state that was read is sent as it was read. *)
Truma_Rereads == SameState(Truma_toCommon(ac), Truma_toCommon(Truma_truma(Truma_toCommon(ac))),
                           {})

(* Switched off and on again the remote says what it said before. *)
Truma_PowerCycles ==
    ~ac.PowerOff =>
      Truma_toCommon(Truma_setPower(Truma_setPower(ac, FALSE), TRUE)) = Truma_toCommon(ac)

-----------------------------------------------------------------------------
Init ==
    \/ remote = "Toshiba" /\ Toshiba_Init
    \/ remote = "Transcold" /\ Transcold_Init
    \/ remote = "Trotec" /\ Trotec_Init
    \/ remote = "Trotec3550" /\ Trotec3550_Init
    \/ remote = "Truma" /\ Truma_Init

Next ==
    /\ UNCHANGED remote
    /\ \/ remote = "Toshiba" /\ Toshiba_Next
       \/ remote = "Transcold" /\ Transcold_Next
       \/ remote = "Trotec" /\ Trotec_Next
       \/ remote = "Trotec3550" /\ Trotec3550_Next
       \/ remote = "Truma" /\ Truma_Next

Spec == Init /\ [][Next]_<<remote, ac>>

(* The object stays one that its message can carry. *)
TypeOK ==
    CASE remote = "Toshiba" -> Toshiba_TypeOK
      [] remote = "Transcold" -> Transcold_TypeOK
      [] remote = "Trotec" -> Trotec_TypeOK
      [] remote = "Trotec3550" -> Trotec3550_TypeOK
      [] remote = "Truma" -> Truma_TypeOK
      [] OTHER -> TRUE

(* What a class says of its settings together, see there. *)
Rules ==
    CASE remote = "Toshiba" -> Toshiba_Rules
      [] remote = "Transcold" -> Transcold_Rules
      [] remote = "Trotec" -> Trotec_Rules
      [] remote = "Trotec3550" -> Trotec3550_Rules
      [] remote = "Truma" -> Truma_Rules
      [] OTHER -> TRUE

(* A state that was read from a message is sent as it was read, see there. *)
Rereads ==
    CASE remote = "Toshiba" -> Toshiba_Rereads
      [] remote = "Transcold" -> Transcold_Rereads
      [] remote = "Trotec" -> Trotec_Rereads
      [] remote = "Trotec3550" -> Trotec3550_Rereads
      [] remote = "Truma" -> Truma_Rereads
      [] OTHER -> TRUE

(* Off and on again is on as before, see there. *)
PowerCycles ==
    CASE remote = "Toshiba" -> Toshiba_PowerCycles
      [] remote = "Truma" -> Truma_PowerCycles
      [] OTHER -> TRUE
=============================================================================
