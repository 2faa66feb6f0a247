----------------------------- MODULE AcMitsubishi -----------------------------
(***************************************************************************)
(* The remotes of Mitsubishi Electric and Mitsubishi Heavy Industries: one *)
(* object of one of the classes, `Mitsubishi', `Mitsubishi112',            *)
(* `Mitsubishi136', `Heavy88', `Heavy152'. What belongs to a class has its *)
(* name in front, as in Mitsubishi_Next; after it come the names of the    *)
(* source.                                                                 *)
(***************************************************************************)
EXTENDS StdAc

VARIABLES
    remote,    \* the class
    ac         \* its object

-----------------------------------------------------------------------------
(***************************************************************************)
(* ir_Mitsubishi.h, ir_Mitsubishi.cpp, class IRMitsubishiAC: a change of   *)
(* mode writes a whole byte, the wide vane with it, and "I Save" is a mode *)
(* within Heat.  Temperatures are counted in half degrees; the clocks and  *)
(* the timer are only stored, and left out.                                *)
(***************************************************************************)
Mitsubishi_Modes == {"Auto", "Cool", "Dry", "Heat", "Fan"}
Mitsubishi_MinTemp == 32
Mitsubishi_MaxTemp == 62
Mitsubishi_FanMax == 5
Mitsubishi_FanRealMax == 4
Mitsubishi_FanSilent == 6
Mitsubishi_VaneAutoMove == 7
Mitsubishi_WideVaneMiddle == 3
Mitsubishi_WideVaneAuto == 8
Mitsubishi_Direct == 3
Mitsubishi_Flags == {"Ecocool", "AbsenseDetect", "NaturalFlow", "WeeklyTimer"}

Mitsubishi_Object ==
    [Power : BOOLEAN, Mode : Mitsubishi_Modes, ISee : BOOLEAN, Temp : 32..62,
     WideVane : 0..8, Fan : 0..5, FanAuto : BOOLEAN, Vane : 0..7,
     VaneLeft : 0..7, DirectIndirect : 0..3, iSave10C : BOOLEAN,
     Flags : SUBSET Mitsubishi_Flags]

Mitsubishi_stateReset ==
    [Power |-> TRUE, Mode |-> "Heat", ISee |-> FALSE, Temp |-> 44,
     WideVane |-> Mitsubishi_WideVaneMiddle, Fan |-> 5, FanAuto |-> FALSE, Vane |-> 0,
     VaneLeft |-> 0, DirectIndirect |-> 0, iSave10C |-> FALSE,
     Flags |-> {}]

Mitsubishi_setPower(a, on) == [a EXCEPT !.Power = on]
Mitsubishi_setTemp(a, halves) ==
    [a EXCEPT !.Temp = Clamp(halves, Mitsubishi_MinTemp, Mitsubishi_MaxTemp),
     !.iSave10C = FALSE]

Mitsubishi_setFan(a, speed) ==
    LET fan == IF speed > Mitsubishi_FanSilent THEN Mitsubishi_FanMax ELSE speed IN
    [a EXCEPT !.FanAuto = (fan = 0),
              !.Fan = IF fan >= Mitsubishi_FanMax THEN fan - 1 ELSE fan]
Mitsubishi_getFan(a) == IF a.Fan = Mitsubishi_FanMax THEN Mitsubishi_FanSilent ELSE a.Fan

(* An unknown mode is Auto, but returns before I Save is taken back. *)
Mitsubishi_setMode(a, mode) ==
    [a EXCEPT !.WideVane = Mitsubishi_WideVaneMiddle,
              !.Mode = IF mode \in Mitsubishi_Modes THEN mode ELSE "Auto",
              !.iSave10C = @ /\ mode \notin Mitsubishi_Modes \ {"Heat"}]

Mitsubishi_setISave10C(a, on) ==
    LET cold == IF on THEN Mitsubishi_setTemp(Mitsubishi_setMode(a, "Heat"),
                                              Mitsubishi_MinTemp) ELSE a IN
    [cold EXCEPT !.iSave10C = on]

Mitsubishi_setISee(a, on) == [a EXCEPT !.ISee = on]
Mitsubishi_setDirectIndirect(a, mode) ==
    [a EXCEPT !.DirectIndirect = IF a.ISee THEN AtMost(mode, Mitsubishi_Direct) ELSE 0]
Mitsubishi_setVane(a, position) == [a EXCEPT !.Vane = AtMost(position, Mitsubishi_VaneAutoMove)]
Mitsubishi_setVaneLeft(a, position) ==
    [a EXCEPT !.VaneLeft = AtMost(position, Mitsubishi_VaneAutoMove)]
Mitsubishi_setWideVane(a, position) ==
    [a EXCEPT !.WideVane = AtMost(position, Mitsubishi_WideVaneAuto)]
Mitsubishi_setFlag(a, flag, on) ==
    [a EXCEPT !.Flags = IF on THEN @ \cup {flag} ELSE @ \ {flag}]

Mitsubishi_convertMode(mode) == IF mode \in Mitsubishi_Modes THEN mode ELSE "Auto"
Mitsubishi_convertFan(speed) ==
    CASE speed = "Min" -> Mitsubishi_FanSilent [] speed = "Max" -> Mitsubishi_FanRealMax
      [] speed \in {"Low", "Medium", "High"} -> FanNumber(speed) - 1
      [] OTHER -> 0
Mitsubishi_toCommonFanSpeed(speed) ==
    CASE speed = Mitsubishi_FanRealMax -> "Max" [] speed = Mitsubishi_FanSilent -> "Min"
      [] speed \in 1..3 -> FanOfNumber(speed + 1) [] OTHER -> "Auto"

Mitsubishi_Heights == <<"Highest", "High", "Middle", "Low", "Lowest">>
Mitsubishi_convertSwingV(position) ==
    CASE position = "Auto" -> Mitsubishi_VaneAutoMove
      [] \E n \in 1..5 : Mitsubishi_Heights[n] = position ->
           CHOOSE n \in 1..5 : Mitsubishi_Heights[n] = position
      [] OTHER -> 0
Mitsubishi_toCommonSwingV(vane) ==
    CASE vane = 0 -> "Off" [] vane \in 1..5 -> Mitsubishi_Heights[vane]
      [] OTHER -> "Auto"

Mitsubishi_Widths == <<"LeftMax", "Left", "Middle", "Right", "RightMax", "Wide">>
Mitsubishi_convertSwingH(position) ==
    CASE position = "Auto" -> Mitsubishi_WideVaneAuto [] position = "Off" -> Mitsubishi_WideVaneMiddle
      [] OTHER -> CHOOSE n \in 1..6 : Mitsubishi_Widths[n] = position
Mitsubishi_toCommonSwingH(vane) == IF vane \in 1..6 THEN Mitsubishi_Widths[vane] ELSE "Auto"

Mitsubishi_toCommon(a) ==
    [power |-> a.Power, mode |-> a.Mode, degrees |-> a.Temp,
     fan |-> Mitsubishi_toCommonFanSpeed(Mitsubishi_getFan(a)), swingv |-> Mitsubishi_toCommonSwingV(a.Vane),
     swingh |-> Mitsubishi_toCommonSwingH(a.WideVane), quiet |-> Mitsubishi_getFan(a) = Mitsubishi_FanSilent]

Mitsubishi_mitsubishi(w) ==
    LET warm == Mitsubishi_setTemp(Mitsubishi_setMode(Mitsubishi_setPower(Mitsubishi_stateReset,
                                                                          w.power),
                                                      Mitsubishi_convertMode(w.mode)), w.degrees)
        fanned == Mitsubishi_setFan(warm, Mitsubishi_convertFan(w.fan))
        swung == Mitsubishi_setWideVane(Mitsubishi_setVaneLeft(Mitsubishi_setVane(fanned,
                     Mitsubishi_convertSwingV(w.swingv)), Mitsubishi_convertSwingV(w.swingv)),
                     Mitsubishi_convertSwingH(w.swingh))
        quiet == IF w.quiet THEN Mitsubishi_setFan(swung, Mitsubishi_FanSilent) ELSE swung
    IN Mitsubishi_setISave10C(quiet, FALSE)

Mitsubishi_Wishes == [power : BOOLEAN, mode : opmode_t, degrees : {31, 45, 63},
                      fan : {"Auto", "Min", "Max"},
                      swingv : {"Off", "Auto", "Low"}, swingh : {"Off", "Wide", "Auto"},
                      quiet : BOOLEAN]

(* At most one of the settings that nothing else depends on at a time. *)
Mitsubishi_MaxFlags == 1

Mitsubishi_Init == ac \in {Mitsubishi_stateReset} \cup {Mitsubishi_mitsubishi(w) : w \in Mitsubishi_Wishes}

Mitsubishi_Next ==
    \/ \E on \in BOOLEAN :
         \/ ac' = Mitsubishi_setPower(ac, on) \/ ac' = Mitsubishi_setISave10C(ac, on)
         \/ ac' = Mitsubishi_setISee(ac, on)
    \/ \E t \in {32, 45} : ac' = Mitsubishi_setTemp(ac, t)
    \/ \E s \in {0, Mitsubishi_FanMax, 9} : ac' = Mitsubishi_setFan(ac, s)
    \/ \E m \in {"Cool", "?"} : ac' = Mitsubishi_setMode(ac, m)
    \/ ac' = Mitsubishi_setDirectIndirect(ac, 5)
    \/ ac' = Mitsubishi_setVane(ac, 9) \/ ac' = Mitsubishi_setVaneLeft(ac, 9)
    \/ ac' = Mitsubishi_setWideVane(ac, 9)
    \/ \E f \in Mitsubishi_Flags, on \in BOOLEAN :
         /\ Cardinality(Mitsubishi_setFlag(ac, f, on).Flags) <= Mitsubishi_MaxFlags
         /\ ac' = Mitsubishi_setFlag(ac, f, on)

Mitsubishi_TypeOK == ac \in Mitsubishi_Object

(* I Save is at the lowest temperature, and ends with the mode it belongs  *)
(* to or with another temperature; no change of mode leaves the wide vane  *)
(* where it was put; the automatic fan is never told with a speed.         *)
Mitsubishi_Rules ==
    /\ ac.iSave10C => ac.Temp = Mitsubishi_MinTemp /\ ac.Mode \in {"Heat", "Auto"}
    /\ \A m \in Mitsubishi_Modes \ {"Heat"} : ~Mitsubishi_setMode(ac, m).iSave10C
    /\ Mitsubishi_setMode(ac, ac.Mode).WideVane = Mitsubishi_WideVaneMiddle
    /\ ac.FanAuto <=> ac.Fan = 0

(* A state that was read is sent as it was read. *)
Mitsubishi_Rereads ==
    LET read == Mitsubishi_toCommon(ac) IN SameState(read, Mitsubishi_toCommon(Mitsubishi_mitsubishi(read)), {})

-----------------------------------------------------------------------------
(***************************************************************************)
(* ir_Mitsubishi.h, ir_Mitsubishi.cpp, class IRMitsubishi112: Mitsubishi's *)
(* numbers for the fan are in no order, and the remote has no Fan mode.    *)
(***************************************************************************)
Mitsubishi112_Modes == {"Cool", "Heat", "Auto", "Dry"}
Mitsubishi112_FanMin == 2
Mitsubishi112_FanLow == 3
Mitsubishi112_FanMed == 5
Mitsubishi112_FanMax == 0
Mitsubishi112_FanQuiet == Mitsubishi112_FanMin
Mitsubishi112_Fans == {Mitsubishi112_FanMin, Mitsubishi112_FanLow, Mitsubishi112_FanMed,
                       Mitsubishi112_FanMax}
Mitsubishi112_Heights == {"Lowest", "Low", "Middle", "High", "Highest", "Auto"}
Mitsubishi112_Widths == {"LeftMax", "Left", "Middle", "Right", "RightMax", "Wide", "Auto"}
Mitsubishi112_MinTemp == 16
Mitsubishi112_MaxTemp == 31

(* Temp is the number in the message: how far below the highest it is. *)
Mitsubishi112_Object == [Power : BOOLEAN, Mode : Mitsubishi112_Modes, Temp : 0..15,
                         Fan : Mitsubishi112_Fans,
                         SwingV : Mitsubishi112_Heights, SwingH : Mitsubishi112_Widths]

Mitsubishi112_stateReset == [Power |-> TRUE, Mode |-> "Cool", Temp |-> 11,
                             Fan |-> Mitsubishi112_FanMax,
                             SwingV |-> "High", SwingH |-> "Auto"]

Mitsubishi112_setPower(a, on) == [a EXCEPT !.Power = on]

Mitsubishi112_setTemp(a, degrees) ==
    [a EXCEPT !.Temp = Mitsubishi112_MaxTemp - Clamp(degrees, Mitsubishi112_MinTemp,
                                                     Mitsubishi112_MaxTemp)]
Mitsubishi112_getTemp(a) == Mitsubishi112_MaxTemp - a.Temp

Mitsubishi112_setFan(a, speed) == [a EXCEPT !.Fan = IF speed \in Mitsubishi112_Fans THEN speed ELSE Mitsubishi112_FanMax]
Mitsubishi112_setMode(a, mode) == [a EXCEPT !.Mode = IF mode \in Mitsubishi112_Modes THEN mode ELSE "Auto"]
Mitsubishi112_setSwingV(a, position) ==
    [a EXCEPT !.SwingV = IF position \in Mitsubishi112_Heights THEN position ELSE "Auto"]
Mitsubishi112_setSwingH(a, position) ==
    [a EXCEPT !.SwingH = IF position \in Mitsubishi112_Widths THEN position ELSE "Auto"]

Mitsubishi112_getQuiet(a) == a.Fan = Mitsubishi112_FanQuiet
Mitsubishi112_setQuiet(a, on) ==
    CASE on -> Mitsubishi112_setFan(a, Mitsubishi112_FanQuiet)
      [] ~on /\ Mitsubishi112_getQuiet(a) -> Mitsubishi112_setFan(a, Mitsubishi112_FanLow)
      [] OTHER -> a

Mitsubishi112_convertMode(mode) == IF mode \in Mitsubishi112_Modes THEN mode ELSE "Auto"
Mitsubishi112_convertFan(speed) ==
    CASE speed = "Min" -> Mitsubishi112_FanMin [] speed = "Low" -> Mitsubishi112_FanLow
      [] speed \in {"High", "Max"} -> Mitsubishi112_FanMax [] OTHER -> Mitsubishi112_FanMed
Mitsubishi112_convertSwingV(position) == IF position \in Mitsubishi112_Heights THEN position ELSE "Auto"
Mitsubishi112_convertSwingH(position) == IF position \in Mitsubishi112_Widths THEN position ELSE "Auto"
Mitsubishi112_toCommonFanSpeed(speed) ==
    CASE speed = Mitsubishi112_FanMax -> "Max" [] speed = Mitsubishi112_FanLow -> "Low"
      [] speed = Mitsubishi112_FanMin -> "Min" [] OTHER -> "Medium"

Mitsubishi112_toCommon(a) ==
    [power |-> a.Power, mode |-> a.Mode, degrees |-> Mitsubishi112_getTemp(a),
     fan |-> Mitsubishi112_toCommonFanSpeed(a.Fan), swingv |-> a.SwingV,
     swingh |-> a.SwingH, quiet |-> Mitsubishi112_getQuiet(a)]

Mitsubishi112_mitsubishi112(w) ==
    LET fanned == Mitsubishi112_setFan(Mitsubishi112_setTemp(Mitsubishi112_setMode(Mitsubishi112_setPower(Mitsubishi112_stateReset, w.power),
                     Mitsubishi112_convertMode(w.mode)), w.degrees), Mitsubishi112_convertFan(w.fan))
        swung == Mitsubishi112_setSwingH(Mitsubishi112_setSwingV(fanned, Mitsubishi112_convertSwingV(w.swingv)),
                                         Mitsubishi112_convertSwingH(w.swingh))
    IN Mitsubishi112_setQuiet(swung, w.quiet)

Mitsubishi112_Wishes == [power : BOOLEAN, mode : opmode_t, degrees : {15, 23, 32},
                         fan : fanspeed_t, swingv : {"Off", "Low"},
                         swingh : {"Off", "Wide"}, quiet : BOOLEAN]

Mitsubishi112_Init == ac \in {Mitsubishi112_stateReset} \cup {Mitsubishi112_mitsubishi112(w) : w \in Mitsubishi112_Wishes}

Mitsubishi112_Next ==
    \/ \E on \in BOOLEAN : ac' = Mitsubishi112_setPower(ac, on) \/ ac' = Mitsubishi112_setQuiet(ac, on)
    \/ \E t \in {15, 23, 32} : ac' = Mitsubishi112_setTemp(ac, t)
    \/ \E s \in {Mitsubishi112_FanMin, Mitsubishi112_FanMed, 9} : ac' = Mitsubishi112_setFan(ac, s)
    \/ \E m \in {"Cool", "Fan"} : ac' = Mitsubishi112_setMode(ac, m)
    \/ \E p \in {"Lowest", "?"} : ac' = Mitsubishi112_setSwingV(ac, p) \/ ac' = Mitsubishi112_setSwingH(ac, p)

Mitsubishi112_TypeOK == ac \in Mitsubishi112_Object

(* A temperature is sent as the one in the range that is nearest to it;    *)
(* and not to be quiet never means to be quiet.                            *)
Mitsubishi112_Rules ==
    /\ \A t \in Around(Mitsubishi112_MinTemp, Mitsubishi112_MaxTemp) :
         Mitsubishi112_getTemp(Mitsubishi112_setTemp(ac, t)) = Clamp(t, Mitsubishi112_MinTemp,
                                                                     Mitsubishi112_MaxTemp)
    /\ ~Mitsubishi112_getQuiet(Mitsubishi112_setQuiet(ac, FALSE))
    /\ ~Mitsubishi112_getQuiet(ac) => Mitsubishi112_setQuiet(ac, FALSE) = ac

(* A state that was read is sent as it was read. *)
Mitsubishi112_Rereads ==
    LET read == Mitsubishi112_toCommon(ac) IN
    SameState(read, Mitsubishi112_toCommon(Mitsubishi112_mitsubishi112(read)), {})

-----------------------------------------------------------------------------
(***************************************************************************)
(* ir_Mitsubishi.h, ir_Mitsubishi.cpp, class IRMitsubishi136: quiet is no  *)
(* setting, but the name of the lowest speed of the fan.                   *)
(***************************************************************************)
Mitsubishi136_Modes == {"Fan", "Cool", "Heat", "Auto", "Dry"}
Mitsubishi136_Swings == {"Lowest", "Low", "High", "Highest", "Auto"}
Mitsubishi136_MinTemp == 17
Mitsubishi136_MaxTemp == 30
Mitsubishi136_FanMin == 0
Mitsubishi136_FanLow == 1
Mitsubishi136_FanMed == 2
Mitsubishi136_FanMax == 3
Mitsubishi136_FanQuiet == Mitsubishi136_FanMin

Mitsubishi136_Object == [Power : BOOLEAN, Mode : Mitsubishi136_Modes, Temp : 16..31, Fan : 0..3,
                         SwingV : Mitsubishi136_Swings]

Mitsubishi136_stateReset == [Power |-> TRUE, Mode |-> "Heat", Temp |-> 28,
                             Fan |-> Mitsubishi136_FanMax,
                             SwingV |-> "Auto"]

Mitsubishi136_setPower(a, on) == [a EXCEPT !.Power = on]
Mitsubishi136_setTemp(a, degrees) == [a EXCEPT !.Temp = Clamp(degrees, Mitsubishi136_MinTemp, Mitsubishi136_MaxTemp)]
Mitsubishi136_setFan(a, speed) == [a EXCEPT !.Fan = AtMost(speed, Mitsubishi136_FanMax)]
Mitsubishi136_setMode(a, mode) == [a EXCEPT !.Mode = IF mode \in Mitsubishi136_Modes THEN mode ELSE "Auto"]
Mitsubishi136_setSwingV(a, position) ==
    [a EXCEPT !.SwingV = IF position \in Mitsubishi136_Swings THEN position ELSE "Auto"]

Mitsubishi136_getQuiet(a) == a.Fan = Mitsubishi136_FanQuiet

Mitsubishi136_setQuiet(a, on) ==
    CASE on -> Mitsubishi136_setFan(a, Mitsubishi136_FanQuiet)
      [] ~on /\ Mitsubishi136_getQuiet(a) -> Mitsubishi136_setFan(a, Mitsubishi136_FanLow)
      [] OTHER -> a

Mitsubishi136_convertMode(mode) == IF mode \in Mitsubishi136_Modes THEN mode ELSE "Auto"
Mitsubishi136_convertFan(speed) ==
    CASE speed = "Min" -> Mitsubishi136_FanMin [] speed = "Low" -> Mitsubishi136_FanLow
      [] speed \in {"High", "Max"} -> Mitsubishi136_FanMax [] OTHER -> Mitsubishi136_FanMed
Mitsubishi136_convertSwingV(position) ==
    CASE position \in Mitsubishi136_Swings -> position [] position = "Middle" -> "High"
      [] OTHER -> "Auto"
Mitsubishi136_toCommonFanSpeed(speed) ==
    CASE speed = Mitsubishi136_FanMax -> "Max" [] speed = Mitsubishi136_FanLow -> "Low"
      [] speed = Mitsubishi136_FanMin -> "Min" [] OTHER -> "Medium"

Mitsubishi136_toCommon(a) ==
    [power |-> a.Power, mode |-> a.Mode, degrees |-> a.Temp,
     fan |-> Mitsubishi136_toCommonFanSpeed(a.Fan), swingv |-> a.SwingV,
     quiet |-> Mitsubishi136_getQuiet(a)]

Mitsubishi136_mitsubishi136(w) ==
    LET fanned == Mitsubishi136_setFan(Mitsubishi136_setTemp(Mitsubishi136_setMode(Mitsubishi136_setPower(Mitsubishi136_stateReset, w.power),
                     Mitsubishi136_convertMode(w.mode)), w.degrees), Mitsubishi136_convertFan(w.fan))
    IN Mitsubishi136_setQuiet(Mitsubishi136_setSwingV(fanned, Mitsubishi136_convertSwingV(w.swingv)), w.quiet)

Mitsubishi136_Wishes == [power : BOOLEAN, mode : opmode_t, degrees : {16, 23, 31},
                         fan : fanspeed_t, swingv : swingv_t, quiet : BOOLEAN]

Mitsubishi136_Init == ac \in {Mitsubishi136_stateReset} \cup {Mitsubishi136_mitsubishi136(w) : w \in Mitsubishi136_Wishes}

Mitsubishi136_Next ==
    \/ \E on \in BOOLEAN : ac' = Mitsubishi136_setPower(ac, on) \/ ac' = Mitsubishi136_setQuiet(ac, on)
    \/ \E t \in {16, 23, 31} : ac' = Mitsubishi136_setTemp(ac, t)
    \/ \E s \in {Mitsubishi136_FanMin, Mitsubishi136_FanMed, 9} : ac' = Mitsubishi136_setFan(ac, s)
    \/ \E m \in {"Cool", "Fan", "?"} : ac' = Mitsubishi136_setMode(ac, m)
    \/ \E p \in {"Lowest", "?"} : ac' = Mitsubishi136_setSwingV(ac, p)

Mitsubishi136_TypeOK == ac \in Mitsubishi136_Object

(* Not to be quiet never means to be quiet: the slowest speed, asked for   *)
(* without quiet, is the low one, and any other speed is left as it was.   *)
Mitsubishi136_Rules ==
    /\ ~Mitsubishi136_getQuiet(Mitsubishi136_setQuiet(ac, FALSE))
    /\ ~Mitsubishi136_getQuiet(ac) => Mitsubishi136_setQuiet(ac, FALSE) = ac
    /\ LET slow == [Mitsubishi136_toCommon(ac) EXCEPT !.fan = "Min", !.quiet = FALSE] IN
       Mitsubishi136_toCommon(Mitsubishi136_mitsubishi136(slow)).fan = "Low"

(* A state that was read is sent as it was read. *)
Mitsubishi136_Rereads ==
    LET read == Mitsubishi136_toCommon(ac) IN
    SameState(read, Mitsubishi136_toCommon(Mitsubishi136_mitsubishi136(read)), {})

-----------------------------------------------------------------------------
(***************************************************************************)
(* ir_MitsubishiHeavy.h, ir_MitsubishiHeavy.cpp, IRMitsubishiHeavy88Ac:    *)
(* both swings are cut in two, 3D is a swing, and the highest speed of the *)
(* fan is turbo.                                                           *)
(***************************************************************************)
Heavy88_Modes == {"Auto", "Cool", "Dry", "Fan", "Heat"}
Heavy88_FanTurbo == 6
Heavy88_FanEcono == 7
Heavy88_Fans == {0, 2, 3, 4, Heavy88_FanTurbo, Heavy88_FanEcono}
Heavy88_MinTemp == 17
Heavy88_MaxTemp == 31

(* The number of each position of the vanes; 2 of SwingV is none. *)
Heavy88_Heights == [Off |-> 0, High |-> 1, Middle |-> 3, Auto |-> 4, Low |-> 5,
                    Highest |-> 6, Lowest |-> 7]
Heavy88_Widths == [Off |-> 0, LeftMax |-> 1, RightMax |-> 2, Left |-> 5, Auto |-> 8,
                   Middle |-> 9, Right |-> 13]
Heavy88_SwingHLeftRight == 6
Heavy88_SwingHRightLeft == 10
Heavy88_SwingH3D == 14

Heavy88_Object == [Power : BOOLEAN, Mode : Heavy88_Modes, Clean : BOOLEAN, Temp : 17..31,
                   Fan : Heavy88_Fans, SwingV5 : 0..1, SwingV7 : 0..3, SwingH1 : 0..3,
                   SwingH2 : 0..3]

Heavy88_stateReset == [Power |-> FALSE, Mode |-> "Auto", Clean |-> FALSE, Temp |-> 17,
                       Fan |-> 0, SwingV5 |-> 0, SwingV7 |-> 0, SwingH1 |-> 0,
                       SwingH2 |-> 0]

Heavy88_setPower(a, on) == [a EXCEPT !.Power = on]
Heavy88_setTemp(a, temp) == [a EXCEPT !.Temp = Clamp(temp, Heavy88_MinTemp, Heavy88_MaxTemp)]
Heavy88_setFan(a, speed) == [a EXCEPT !.Fan = IF speed \in Heavy88_Fans THEN speed ELSE 0]
Heavy88_setMode(a, mode) == [a EXCEPT !.Mode = IF mode \in Heavy88_Modes THEN mode ELSE "Auto"]
Heavy88_setClean(a, on) == [a EXCEPT !.Clean = on]

Heavy88_setSwingVertical(a, pos) ==
    LET p == IF pos \in {Heavy88_Heights[h] : h \in DOMAIN Heavy88_Heights} THEN pos ELSE 0 IN
    [a EXCEPT !.SwingV5 = p % 2, !.SwingV7 = p \div 2]
Heavy88_getSwingVertical(a) == a.SwingV5 + 2 * a.SwingV7

Heavy88_setSwingHorizontal(a, pos) ==
    LET p == IF pos \in {Heavy88_Widths[h] : h \in DOMAIN Heavy88_Widths} \cup
                        {Heavy88_SwingHLeftRight, Heavy88_SwingHRightLeft, Heavy88_SwingH3D}
               THEN pos ELSE 0 IN
    [a EXCEPT !.SwingH1 = p % 4, !.SwingH2 = p \div 4]
Heavy88_getSwingHorizontal(a) == a.SwingH1 + 4 * a.SwingH2

(* 3D takes the place of the swing there was, and its end brings none back. *)
Heavy88_get3D(a) == Heavy88_getSwingHorizontal(a) = Heavy88_SwingH3D
Heavy88_set3D(a, on) ==
    CASE on -> Heavy88_setSwingHorizontal(a, Heavy88_SwingH3D)
      [] ~on /\ Heavy88_get3D(a) -> Heavy88_setSwingHorizontal(a, 0)
      [] OTHER -> a

Heavy88_getTurbo(a) == a.Fan = Heavy88_FanTurbo
Heavy88_setTurbo(a, on) ==
    CASE on -> Heavy88_setFan(a, Heavy88_FanTurbo) [] ~on /\ Heavy88_getTurbo(a) -> Heavy88_setFan(a, 0)
      [] OTHER -> a
Heavy88_getEcono(a) == a.Fan = Heavy88_FanEcono
Heavy88_setEcono(a, on) ==
    CASE on -> Heavy88_setFan(a, Heavy88_FanEcono) [] ~on /\ Heavy88_getEcono(a) -> Heavy88_setFan(a, 0)
      [] OTHER -> a

Heavy88_convertMode(mode) == IF mode \in Heavy88_Modes THEN mode ELSE "Auto"
Heavy88_convertFan(speed) ==
    CASE speed = "Min" -> Heavy88_FanEcono [] speed = "Max" -> Heavy88_FanTurbo
      [] speed \in {"Low", "Medium", "High"} -> FanNumber(speed)
      [] OTHER -> 0
Heavy88_toCommonFanSpeed(speed) ==
    CASE speed = Heavy88_FanEcono -> "Min" [] speed = Heavy88_FanTurbo -> "Max"
      [] speed \in 2..4 -> FanOfNumber(speed) [] OTHER -> "Auto"

Heavy88_convertSwingV(position) ==
    IF position \in DOMAIN Heavy88_Heights THEN Heavy88_Heights[position] ELSE 0
Heavy88_toCommonSwingV(pos) ==
    IF \E h \in DOMAIN Heavy88_Heights : Heavy88_Heights[h] = pos
      THEN CHOOSE h \in DOMAIN Heavy88_Heights : Heavy88_Heights[h] = pos ELSE "Auto"
Heavy88_convertSwingH(position) ==
    IF position \in DOMAIN Heavy88_Widths THEN Heavy88_Widths[position] ELSE 0
Heavy88_toCommonSwingH(pos) ==
    IF \E h \in DOMAIN Heavy88_Widths : Heavy88_Widths[h] = pos
      THEN CHOOSE h \in DOMAIN Heavy88_Widths : Heavy88_Widths[h] = pos ELSE "Auto"

Heavy88_toCommon(a) ==
    [power |-> a.Power, mode |-> a.Mode, degrees |-> a.Temp,
     fan |-> Heavy88_toCommonFanSpeed(a.Fan),
     swingv |-> Heavy88_toCommonSwingV(Heavy88_getSwingVertical(a)),
     swingh |-> Heavy88_toCommonSwingH(Heavy88_getSwingHorizontal(a)),
     turbo |-> Heavy88_getTurbo(a), econo |-> Heavy88_getEcono(a), clean |-> a.Clean]

Heavy88_mitsubishiHeavy88(w) ==
    LET fanned == Heavy88_setFan(Heavy88_setTemp(Heavy88_setMode(Heavy88_setPower(Heavy88_stateReset, w.power),
                     Heavy88_convertMode(w.mode)), w.degrees), Heavy88_convertFan(w.fan))
        swung == Heavy88_setSwingHorizontal(Heavy88_setSwingVertical(fanned,
                     Heavy88_convertSwingV(w.swingv)), Heavy88_convertSwingH(w.swingh))
    IN Heavy88_setClean(Heavy88_setEcono(Heavy88_setTurbo(swung, w.turbo), w.econo), w.clean)

Heavy88_Wishes == [power : BOOLEAN, mode : {"Off", "Cool"}, degrees : {16, 24, 32},
                   fan : {"Auto", "Min", "High", "Max"}, swingv : swingv_t,
                   swingh : swingh_t, turbo : BOOLEAN, econo : BOOLEAN,
                   clean : {FALSE}]

Heavy88_Init == ac \in {Heavy88_stateReset} \cup {Heavy88_mitsubishiHeavy88(w) : w \in Heavy88_Wishes}

Heavy88_Next ==
    \/ \E on \in BOOLEAN :
         \/ ac' = Heavy88_setPower(ac, on) \/ ac' = Heavy88_setTurbo(ac, on)
         \/ ac' = Heavy88_setEcono(ac, on) \/ ac' = Heavy88_set3D(ac, on)
    \/ ac' = Heavy88_setClean(ac, TRUE)
    \/ ac' = Heavy88_setTemp(ac, 16)
    \/ \E s \in {3, 5} : ac' = Heavy88_setFan(ac, s)
    \/ \E m \in {"Heat", "?"} : ac' = Heavy88_setMode(ac, m)
    \/ \E p \in {2, 6} : ac' = Heavy88_setSwingVertical(ac, p)
    \/ \E p \in {3, Heavy88_SwingHLeftRight} : ac' = Heavy88_setSwingHorizontal(ac, p)

Heavy88_TypeOK == ac \in Heavy88_Object

(* Every position is put together as it was cut; the highest speed is only *)
(* sent with turbo and without econo, the slowest only with econo; and 3D  *)
(* does not keep the swing it takes the place of.                          *)
Heavy88_Rules ==
    /\ \A h \in DOMAIN Heavy88_Heights :
         Heavy88_getSwingVertical(Heavy88_setSwingVertical(ac, Heavy88_Heights[h])) = Heavy88_Heights[h]
    /\ \A h \in DOMAIN Heavy88_Widths :
         Heavy88_getSwingHorizontal(Heavy88_setSwingHorizontal(ac, Heavy88_Widths[h])) = Heavy88_Widths[h]
    /\ \A fan \in {"Min", "Max"} :
         LET wish == [Heavy88_toCommon(ac) EXCEPT !.fan = fan] IN
         Heavy88_toCommon(Heavy88_mitsubishiHeavy88(wish)).fan =
             CASE wish.econo -> "Min" [] ~wish.econo /\ wish.turbo -> "Max"
               [] OTHER -> "Auto"
    /\ Heavy88_getSwingHorizontal(Heavy88_set3D(Heavy88_set3D(ac, TRUE), FALSE)) = 0

(* A state that was read is sent as it was read. *)
Heavy88_Rereads ==
    LET read == Heavy88_toCommon(ac) IN
    SameState(read, Heavy88_toCommon(Heavy88_mitsubishiHeavy88(read)), {})

-----------------------------------------------------------------------------
(***************************************************************************)
(* ir_MitsubishiHeavy.h, ir_MitsubishiHeavy.cpp, IRMitsubishiHeavy152Ac:   *)
(* turbo and econo are speeds of the fan, and clean needs the filter.      *)
(***************************************************************************)
Heavy152_Modes == {"Auto", "Cool", "Dry", "Fan", "Heat"}
Heavy152_FanEcono == 6
Heavy152_FanTurbo == 8
Heavy152_Speeds == 1..4
Heavy152_SwingVOff == 6
Heavy152_SwingHOff == 8
Heavy152_MinTemp == 17
Heavy152_MaxTemp == 31

Heavy152_Object == [Power : BOOLEAN, Mode : Heavy152_Modes, Clean : BOOLEAN, Filter : BOOLEAN,
                    Temp : 17..31, Fan : {0} \cup Heavy152_Speeds \cup {Heavy152_FanEcono,
                                                                        Heavy152_FanTurbo},
                    ThreeD : BOOLEAN, SwingV : 0..6, SwingH : 0..8, Night : BOOLEAN,
                    Silent : BOOLEAN]

(* The last byte of the reset message is the one that says silent. *)
Heavy152_stateReset == [Power |-> FALSE, Mode |-> "Auto", Clean |-> FALSE,
                        Filter |-> FALSE, Temp |-> 17, Fan |-> 0, ThreeD |-> FALSE,
                        SwingV |-> 0, SwingH |-> 0, Night |-> FALSE, Silent |-> TRUE]

Heavy152_setPower(a, on) == [a EXCEPT !.Power = on]
Heavy152_setTemp(a, temp) == [a EXCEPT !.Temp = Clamp(temp, Heavy152_MinTemp, Heavy152_MaxTemp)]
Heavy152_setFan(a, speed) ==
    [a EXCEPT !.Fan =
        IF speed \in Heavy152_Speeds \cup {Heavy152_FanEcono,
                                           Heavy152_FanTurbo} THEN speed ELSE 0]
Heavy152_setMode(a, mode) == [a EXCEPT !.Mode = IF mode \in Heavy152_Modes THEN mode ELSE "Auto"]
Heavy152_setSwingVertical(a, pos) == [a EXCEPT !.SwingV = AtMost(pos, Heavy152_SwingVOff)]
Heavy152_setSwingHorizontal(a, pos) == [a EXCEPT !.SwingH = AtMost(pos, Heavy152_SwingHOff)]
Heavy152_setNight(a, on) == [a EXCEPT !.Night = on]
Heavy152_set3D(a, on) == [a EXCEPT !.ThreeD = on]
Heavy152_setSilent(a, on) == [a EXCEPT !.Silent = on]
Heavy152_setFilter(a, on) == [a EXCEPT !.Filter = on]
Heavy152_setClean(a, on) == [a EXCEPT !.Filter = on, !.Clean = on]
Heavy152_getClean(a) == a.Clean /\ a.Filter

Heavy152_getTurbo(a) == a.Fan = Heavy152_FanTurbo

Heavy152_setTurbo(a, on) ==
    CASE on -> Heavy152_setFan(a, Heavy152_FanTurbo) [] ~on /\ Heavy152_getTurbo(a) -> Heavy152_setFan(a, 0)
      [] OTHER -> a

Heavy152_getEcono(a) == a.Fan = Heavy152_FanEcono
Heavy152_setEcono(a, on) ==
    CASE on -> Heavy152_setFan(a, Heavy152_FanEcono) [] ~on /\ Heavy152_getEcono(a) -> Heavy152_setFan(a, 0)
      [] OTHER -> a

Heavy152_convertMode(mode) == IF mode \in Heavy152_Modes THEN mode ELSE "Auto"
Heavy152_convertFan(speed) ==
    CASE speed = "Min" -> Heavy152_FanEcono [] speed = "Max" -> 4
      [] speed \in {"Low", "Medium", "High"} -> FanNumber(speed) - 1
      [] OTHER -> 0
Heavy152_toCommonFanSpeed(speed) ==
    CASE speed = Heavy152_FanEcono -> "Min" [] speed = 4 -> "Max"
      [] speed \in 1..3 -> FanOfNumber(speed + 1) [] OTHER -> "Auto"

Heavy152_Heights == <<"Highest", "High", "Middle", "Low", "Lowest">>
Heavy152_convertSwingV(position) ==
    CASE position = "Auto" -> 0
      [] \E n \in 1..5 : Heavy152_Heights[n] = position ->
           CHOOSE n \in 1..5 : Heavy152_Heights[n] = position
      [] OTHER -> Heavy152_SwingVOff
Heavy152_toCommonSwingV(pos) ==
    CASE pos \in 1..5 -> Heavy152_Heights[pos] [] pos = Heavy152_SwingVOff -> "Off"
      [] OTHER -> "Auto"

Heavy152_Widths == <<"LeftMax", "Left", "Middle", "Right", "RightMax">>
Heavy152_convertSwingH(position) ==
    CASE position = "Auto" -> 0
      [] \E n \in 1..5 : Heavy152_Widths[n] = position ->
           CHOOSE n \in 1..5 : Heavy152_Widths[n] = position
      [] OTHER -> Heavy152_SwingHOff
Heavy152_toCommonSwingH(pos) ==
    CASE pos \in 1..5 -> Heavy152_Widths[pos] [] pos = Heavy152_SwingHOff -> "Off"
      [] OTHER -> "Auto"

Heavy152_toCommon(a) ==
    [power |-> a.Power, mode |-> a.Mode, degrees |-> a.Temp,
     fan |-> Heavy152_toCommonFanSpeed(a.Fan), swingv |-> Heavy152_toCommonSwingV(a.SwingV),
     swingh |-> Heavy152_toCommonSwingH(a.SwingH), turbo |-> Heavy152_getTurbo(a),
     econo |-> Heavy152_getEcono(a), clean |-> Heavy152_getClean(a), quiet |-> a.Silent,
     filter |-> a.Filter, sleep |-> a.Night]

Heavy152_mitsubishiHeavy152(w) ==
    LET fanned == Heavy152_setFan(Heavy152_setTemp(Heavy152_setMode(Heavy152_setPower(Heavy152_stateReset, w.power),
                     Heavy152_convertMode(w.mode)), w.degrees), Heavy152_convertFan(w.fan))
        swung == Heavy152_setSwingHorizontal(Heavy152_setSwingVertical(fanned,
                     Heavy152_convertSwingV(w.swingv)), Heavy152_convertSwingH(w.swingh))
        driven == Heavy152_setEcono(Heavy152_setTurbo(Heavy152_setSilent(swung, w.quiet),
                                                      w.turbo),
                                    w.econo)
    IN Heavy152_setNight(Heavy152_setFilter(Heavy152_setClean(driven, w.clean), w.filter),
                         w.sleep)

Heavy152_Wishes == [power : BOOLEAN, mode : {"Off", "Cool"}, degrees : {16, 24, 32},
                    fan : {"Auto", "Min", "High", "Max"}, swingv : {"Off", "Low"},
                    swingh : {"Off"}, quiet : BOOLEAN, turbo : BOOLEAN,
                    econo : BOOLEAN, clean : BOOLEAN, filter : BOOLEAN, sleep : {FALSE}]

Heavy152_Init == ac \in {Heavy152_stateReset} \cup {Heavy152_mitsubishiHeavy152(w) : w \in Heavy152_Wishes}

Heavy152_Next ==
    \/ \E on \in BOOLEAN :
         \/ ac' = Heavy152_setPower(ac, on) \/ ac' = Heavy152_setTurbo(ac, on)
         \/ ac' = Heavy152_setEcono(ac, on) \/ ac' = Heavy152_setFilter(ac, on)
         \/ ac' = Heavy152_setClean(ac, on) \/ ac' = Heavy152_setNight(ac, on)
    \/ ac' = Heavy152_set3D(ac, TRUE) \/ ac' = Heavy152_setSilent(ac, FALSE)
    \/ \E t \in {16, 24} : ac' = Heavy152_setTemp(ac, t)
    \/ \E s \in {2, 5} : ac' = Heavy152_setFan(ac, s)
    \/ \E m \in {"Heat", "?"} : ac' = Heavy152_setMode(ac, m)
    \/ ac' = Heavy152_setSwingVertical(ac, 2) \/ ac' = Heavy152_setSwingHorizontal(ac, 9)

Heavy152_TypeOK == ac \in Heavy152_Object

(* Not to be turbo, or econo, changes no other speed; the later of the two *)
(* wins; the filter alone is not clean, but without it nothing is; and     *)
(* the slowest speed is only sent as econo.                                *)
Heavy152_Rules ==
    /\ ~Heavy152_getTurbo(ac) => Heavy152_setTurbo(ac, FALSE) = ac
    /\ ~Heavy152_getEcono(ac) => Heavy152_setEcono(ac, FALSE) = ac
    /\ ~Heavy152_getTurbo(Heavy152_setEcono(Heavy152_setTurbo(ac, TRUE), TRUE))
    /\ ~Heavy152_getClean(Heavy152_setFilter(Heavy152_setClean(ac, TRUE), FALSE))
    /\ LET slow == [Heavy152_toCommon(ac) EXCEPT !.fan = "Min"] IN
       Heavy152_toCommon(Heavy152_mitsubishiHeavy152(slow)).fan = "Min" <=> slow.econo

(* A state that was read is sent as it was read. *)
Heavy152_Rereads ==
    LET read == Heavy152_toCommon(ac) IN
    SameState(read, Heavy152_toCommon(Heavy152_mitsubishiHeavy152(read)), {})

-----------------------------------------------------------------------------
Init ==
    \/ remote = "Mitsubishi" /\ Mitsubishi_Init
    \/ remote = "Mitsubishi112" /\ Mitsubishi112_Init
    \/ remote = "Mitsubishi136" /\ Mitsubishi136_Init
    \/ remote = "Heavy88" /\ Heavy88_Init
    \/ remote = "Heavy152" /\ Heavy152_Init

Next ==
    /\ UNCHANGED remote
    /\ \/ remote = "Mitsubishi" /\ Mitsubishi_Next
       \/ remote = "Mitsubishi112" /\ Mitsubishi112_Next
       \/ remote = "Mitsubishi136" /\ Mitsubishi136_Next
       \/ remote = "Heavy88" /\ Heavy88_Next
       \/ remote = "Heavy152" /\ Heavy152_Next

Spec == Init /\ [][Next]_<<remote, ac>>

(* The object stays one that its message can carry. *)
TypeOK ==
    CASE remote = "Mitsubishi" -> Mitsubishi_TypeOK
      [] remote = "Mitsubishi112" -> Mitsubishi112_TypeOK
      [] remote = "Mitsubishi136" -> Mitsubishi136_TypeOK
      [] remote = "Heavy88" -> Heavy88_TypeOK
      [] remote = "Heavy152" -> Heavy152_TypeOK
      [] OTHER -> TRUE

(* What a class says of its settings together, see there. *)
Rules ==
    CASE remote = "Mitsubishi" -> Mitsubishi_Rules
      [] remote = "Mitsubishi112" -> Mitsubishi112_Rules
      [] remote = "Mitsubishi136" -> Mitsubishi136_Rules
      [] remote = "Heavy88" -> Heavy88_Rules
      [] remote = "Heavy152" -> Heavy152_Rules
      [] OTHER -> TRUE

(* A state that was read from a message is sent as it was read, see there. *)
Rereads ==
    CASE remote = "Mitsubishi" -> Mitsubishi_Rereads
      [] remote = "Mitsubishi112" -> Mitsubishi112_Rereads
      [] remote = "Mitsubishi136" -> Mitsubishi136_Rereads
      [] remote = "Heavy88" -> Heavy88_Rereads
      [] remote = "Heavy152" -> Heavy152_Rereads
      [] OTHER -> TRUE
=============================================================================
