-------------------------------- MODULE AcArgo --------------------------------
(***************************************************************************)
(* The two generations of Argo's remotes: one object of one of the classes,*)
(* `Argo', `ArgoWrem3'. What belongs to a class has its name in front, as in*)
(* Argo_Next; after it come the names of the source.                       *)
(***************************************************************************)
EXTENDS StdAc

VARIABLES
    remote,    \* the class
    ac         \* its object

-----------------------------------------------------------------------------
(***************************************************************************)
(* ir_Argo.h, ir_Argo.cpp, classes IRArgoACBase<ArgoProtocol> and IRArgoAC *)
(* (WREM2): the settings of the newer remote are told in fewer bits, and   *)
(* what they have no number for passes through if it fits.                 *)
(***************************************************************************)
Argo_TempDelta == 4
Argo_MinTemp == 10
Argo_MaxTemp == 32
Argo_MaxRoomTemp == 35
Argo_kArgoAuto == 2
Argo_Types == {"AC_CONTROL", "IFEEL_TEMP_REPORT"}

(* Temp, RoomTemp and SensorT are the numbers in the message. *)
Argo_Object == [type : Argo_Types, Power : BOOLEAN, Mode : 0..7, Temp : 0..31,
                Fan : 0..3, RoomTemp : 0..31, SensorT : 0..31, Flap : 0..7,
                Night : BOOLEAN, Max : BOOLEAN, iFeel : BOOLEAN]

(* argoMode_t and argoFan_t, the numbers of the newer remote. *)
Argo_Mode == [COOL |-> 1, DRY |-> 2, HEAT |-> 3, FAN |-> 4, AUTO |-> 5]
Argo_ModeBits == <<0, 1, 4, 3, 2>>

Argo_setMode(a, mode) ==
    [a EXCEPT !.Mode = CASE mode \in 1..5 -> Argo_ModeBits[mode]
                         [] mode \in {0, 6, 7} -> mode
                         [] OTHER -> Argo_kArgoAuto]
Argo_getModeEx(a) ==
    CASE a.Mode \in 0..4 -> CHOOSE m \in 1..5 : Argo_ModeBits[m] = a.Mode
      [] OTHER -> a.Mode

Argo_setFan(a, fan) ==
    [a EXCEPT !.Fan = CASE fan \in {1, 2} -> 1 [] fan \in {3, 4} -> 2
                        [] fan \in {5, 6} -> 3 [] OTHER -> 0]
Argo_getFanEx(a) ==
    CASE a.Fan = 1 -> 1 [] a.Fan = 2 -> 4 [] a.Fan = 3 -> 6 [] OTHER -> 0

Argo_setPower(a, on) == [a EXCEPT !.Power = on]
Argo_setMax(a, on) == [a EXCEPT !.Max = on]
Argo_setNight(a, on) == [a EXCEPT !.Night = on]
Argo_setiFeel(a, on) == [a EXCEPT !.iFeel = on]
Argo_setFlap(a, flap) == [a EXCEPT !.Flap = IF flap \in 0..7 THEN flap ELSE 0]
Argo_setTemp(a, degrees) ==
    [a EXCEPT !.Temp = Clamp(degrees, Argo_MinTemp, Argo_MaxTemp) - Argo_TempDelta]
Argo_getTemp(a) == a.Temp + Argo_TempDelta

Argo_setSensorTemp(a, degrees) ==
    LET temp == AtLeast(AtMost(degrees, Argo_MaxRoomTemp), Argo_TempDelta) - Argo_TempDelta IN
    IF a.type = "IFEEL_TEMP_REPORT" THEN [a EXCEPT !.SensorT = temp]
    ELSE [a EXCEPT !.RoomTemp = temp]
Argo_getSensorTemp(a) ==
    Argo_TempDelta + IF a.type = "IFEEL_TEMP_REPORT" THEN a.SensorT ELSE a.RoomTemp

(* setMessageType.  The message's defaults are made while the type is the  *)
(* one before: after a report the room's 25C is written where a report has *)
(* it, over two bits of the temperature.                                   *)
Argo_stateReset(type, before) ==
    LET blank == [type |-> type, Power |-> FALSE, Mode |-> 0, Temp |-> 0,
                  Fan |-> 0, RoomTemp |-> 0, SensorT |-> 0, Flap |-> 0,
                  Night |-> FALSE, Max |-> FALSE, iFeel |-> FALSE]
    IN CASE type # "AC_CONTROL" -> blank
         [] type = "AC_CONTROL" /\ before = type ->
              [blank EXCEPT !.Mode = Argo_kArgoAuto, !.Temp = 16, !.RoomTemp = 21]
         [] OTHER -> [blank EXCEPT !.Mode = Argo_kArgoAuto, !.Temp = 18]

Argo_convertMode(mode) ==
    CASE mode = "Cool" -> Argo_Mode.COOL [] mode = "Heat" -> Argo_Mode.HEAT
      [] mode = "Dry" -> Argo_Mode.DRY [] mode = "Fan" -> Argo_Mode.FAN
      [] OTHER -> Argo_Mode.AUTO
Argo_toCommonMode(mode) ==
    CASE mode = Argo_Mode.COOL -> "Cool" [] mode = Argo_Mode.HEAT -> "Heat"
      [] mode = Argo_Mode.DRY -> "Dry" [] mode = Argo_Mode.FAN -> "Fan"
      [] OTHER -> "Auto"

Argo_Speeds == <<"Min", "Low", "Medium", "MediumHigh", "High", "Max">>
Argo_convertFan(speed) ==
    IF speed = "Auto" THEN 0 ELSE CHOOSE n \in 1..6 : Argo_Speeds[n] = speed
Argo_toCommonFanSpeed(speed) == IF speed \in 1..6 THEN Argo_Speeds[speed] ELSE "Auto"

Argo_Flaps == <<"Highest", "High", "UpperMiddle", "Middle", "Low", "Lowest", "Off">>
Argo_convertSwingV(position) ==
    IF position = "Auto" THEN 0 ELSE CHOOSE n \in 1..7 : Argo_Flaps[n] = position

(* The flap is not read. *)
Argo_toCommon(a) ==
    [power |-> a.Power, mode |-> Argo_toCommonMode(Argo_getModeEx(a)),
     degrees |-> Argo_getTemp(a), sensor |-> Argo_getSensorTemp(a), iFeel |-> a.iFeel,
     fan |-> Argo_toCommonFanSpeed(Argo_getFanEx(a)), swingv |-> "Off",
     turbo |-> a.Max, sleep |-> a.Night]

Argo_argo(w) ==
         LET control == Argo_setPower(Argo_stateReset("AC_CONTROL", "AC_CONTROL"), w.power)
             cooled == Argo_setTemp(Argo_setMode(control, Argo_convertMode(w.mode)), w.degrees)
             felt == IF w.sensor # -100 THEN Argo_setSensorTemp(cooled, w.sensor)
                     ELSE cooled
             fanned == Argo_setFan(Argo_setiFeel(felt, w.iFeel), Argo_convertFan(w.fan))
         IN Argo_setNight(Argo_setMax(Argo_setFlap(fanned, Argo_convertSwingV(w.swingv)),
                                      w.turbo),
                          w.sleep)

Argo_Wishes == [power : BOOLEAN, mode : opmode_t, degrees : {9, 20, 33},
                sensor : {-100, 3, 36}, fan : {"Auto", "Low", "High"},
                swingv : {"Off", "Middle"}, iFeel : BOOLEAN, turbo : {FALSE},
                sleep : {FALSE}]

Argo_Init == ac \in {Argo_stateReset("AC_CONTROL", "AC_CONTROL")} \cup
                    {Argo_argo(w) : w \in Argo_Wishes}

Argo_Next ==
    \/ \E type \in Argo_Types : ac' = Argo_stateReset(type, ac.type)
    \/ \E on \in BOOLEAN : ac' = Argo_setPower(ac, on) \/ ac' = Argo_setMax(ac, on)
    \/ ac' = Argo_setNight(ac, TRUE) \/ ac' = Argo_setiFeel(ac, FALSE)
    \/ ac' = Argo_setTemp(ac, 33) \/ ac' = Argo_setSensorTemp(ac, 36)
    \/ \E m \in {4, 6, 9} : ac' = Argo_setMode(ac, m)
    \/ \E f \in {3, 7} : ac' = Argo_setFan(ac, f)
    \/ \E f \in {1, 8} : ac' = Argo_setFlap(ac, f)

Argo_TypeOK == ac \in Argo_Object

(* What the class says of a mode is the mode that it was given, but for a  *)
(* mode it has no name of; one speed in two is told apart; and a control   *)
(* message starts at 20C, unless it takes the place of a report.           *)
Argo_Rules ==
    /\ \A m \in 1..5 : Argo_getModeEx(Argo_setMode(ac, m)) = m
    /\ \A m \in {6, 7} : Argo_getModeEx(Argo_setMode(ac, m)) = m
    /\ \A f \in 1..6 :
         Argo_getFanEx(Argo_setFan(ac, f)) = CASE f < 3 -> 1 [] f \in {3, 4} -> 4
                                               [] OTHER -> 6
    /\ Argo_getTemp(Argo_stateReset("AC_CONTROL", ac.type)) =
         IF ac.type = "AC_CONTROL" THEN 20 ELSE 22

(* A state that was read is sent as it was read, with the flap moving over *)
(* its whole way.                                                          *)
Argo_Rereads ==
    LET read == Argo_toCommon(ac) IN
    /\ ac.type = "AC_CONTROL" => SameState(read, Argo_toCommon(Argo_argo(read)), {})
    /\ Argo_argo(read).Flap = 7

-----------------------------------------------------------------------------
(***************************************************************************)
(* ir_Argo.h, ir_Argo.cpp, classes IRArgoACBase<ArgoProtocolWREM3> and     *)
(* IRArgoAC_WREM3: one object for four kinds of message, which share their *)
(* bytes.  `ac` has the fields of the kind it is; a setter of another kind *)
(* is not called on it.                                                    *)
(***************************************************************************)
(* The numbers of modes, speeds and flaps, and the ways to and from them,  *)
(* are those of the template that both remotes share.                      *)
ArgoWrem3_TempDelta == 4
ArgoWrem3_MaxRoomTemp == 35
ArgoWrem3_MaxChannel == 3
ArgoWrem3_DelayTimerMax == 1190
ArgoWrem3_ScheduleTimerMax == 1430

ArgoWrem3_ACControl == [type : {"AC_CONTROL"}, IrChannel : 0..3, Power : BOOLEAN,
                        Mode : 1..5, Temp : 6..28, Fan : 0..6, RoomTemp : 0..31,
                        Flap : 0..7, flags : SUBSET {"iFeel", "Night", "Eco", "Max",
                                                     "Filter", "Light"}]
ArgoWrem3_Report == [type : {"IFEEL_TEMP_REPORT"}, SensorT : 0..31]
ArgoWrem3_Config == [type : {"CONFIG_PARAM_SET"}, Key : 0..255, Value : 0..255]
ArgoWrem3_TimerMessage ==
    [type : {"TIMER_COMMAND"}, IsOn : BOOLEAN, TimerType : 0..4,
     CurrentTime : 0..1439, Weekday : 0..6, DelayHi : 0..31, DelayLo : 0..63,
     StartHi : 0..255, StartLo : 0..7, EndHi : 0..7, EndLo : 0..255,
     ActiveDays : SUBSET (0..6)]
ArgoWrem3_Object == ArgoWrem3_ACControl \cup ArgoWrem3_Report \cup ArgoWrem3_Config \cup ArgoWrem3_TimerMessage

(* setMessageType *)
ArgoWrem3_stateReset(type) ==
    CASE type = "AC_CONTROL" ->
           [type |-> type, IrChannel |-> 0, Power |-> FALSE, Mode |-> 5,
            Temp |-> 16, Fan |-> 0, RoomTemp |-> 21, Flap |-> 0, flags |-> {}]
      [] type = "IFEEL_TEMP_REPORT" -> [type |-> type, SensorT |-> 0]
      [] type = "CONFIG_PARAM_SET" -> [type |-> type, Key |-> 0, Value |-> 0]
      [] type = "TIMER_COMMAND" ->
           [type |-> type, IsOn |-> FALSE, TimerType |-> 0, CurrentTime |-> 0,
            Weekday |-> 0, DelayHi |-> 0, DelayLo |-> 0, StartHi |-> 0,
            StartLo |-> 0, EndHi |-> 0, EndLo |-> 0, ActiveDays |-> {}]

ArgoWrem3_setPower(a, on) ==
    IF a.type = "TIMER_COMMAND" THEN [a EXCEPT !.IsOn = on]
    ELSE [a EXCEPT !.Power = on]
ArgoWrem3_setMode(a, mode) == [a EXCEPT !.Mode = IF mode \in 1..5 THEN mode ELSE 5]
ArgoWrem3_setFan(a, fan) == [a EXCEPT !.Fan = IF fan \in 0..6 THEN fan ELSE 0]
ArgoWrem3_setFlap(a, flap) == [a EXCEPT !.Flap = IF flap \in 0..7 THEN flap ELSE 0]
ArgoWrem3_setTemp(a, degrees) ==
    [a EXCEPT !.Temp = Clamp(degrees, 10, 32) - ArgoWrem3_TempDelta]
ArgoWrem3_setChannel(a, channel) == [a EXCEPT !.IrChannel = AtMost(channel, ArgoWrem3_MaxChannel)]
ArgoWrem3_setFlag(a, flag, on) ==
    [a EXCEPT !.flags = IF on THEN @ \cup {flag} ELSE @ \ {flag}]
ArgoWrem3_setConfigEntry(a, key, value) == [a EXCEPT !.Key = key, !.Value = value]

ArgoWrem3_setSensorTemp(a, degrees) ==
    LET temp == AtLeast(AtMost(degrees, ArgoWrem3_MaxRoomTemp),
                        ArgoWrem3_TempDelta) - ArgoWrem3_TempDelta IN
    IF a.type = "IFEEL_TEMP_REPORT" THEN [a EXCEPT !.SensorT = temp]
    ELSE [a EXCEPT !.RoomTemp = temp]

ArgoWrem3_setTimerType(a, type) ==
    [a EXCEPT !.TimerType = IF type > 4 THEN 0 ELSE type]
ArgoWrem3_setCurrentTimeMinutes(a, mins) ==
    [a EXCEPT !.CurrentTime = AtMost(mins, 1439)]
ArgoWrem3_setCurrentDayOfWeek(a, day) == [a EXCEPT !.Weekday = AtMost(day, 6)]

(* The nearest ten minutes: the cast cuts off before they are multiplied.  *)
ArgoWrem3_Tens(mins, max) == ((AtMost(mins, max) + 5) \div 10) * 10

ArgoWrem3_setDelayTimerMinutes(a, mins) ==
    LET time == ArgoWrem3_Tens(mins, ArgoWrem3_DelayTimerMax) IN
    [a EXCEPT !.DelayHi = time \div 64, !.DelayLo = time % 64]
ArgoWrem3_getDelayTimerMinutes(a) == a.DelayHi * 64 + a.DelayLo

ArgoWrem3_setScheduleTimerStartMinutes(a, mins) ==
    LET time == ArgoWrem3_Tens(mins, ArgoWrem3_ScheduleTimerMax) IN
    [a EXCEPT !.StartHi = time \div 8, !.StartLo = time % 8]
ArgoWrem3_getScheduleTimerStartMinutes(a) == a.StartHi * 8 + a.StartLo

ArgoWrem3_setScheduleTimerStopMinutes(a, mins) ==
    LET time == ArgoWrem3_Tens(mins, ArgoWrem3_ScheduleTimerMax) IN
    [a EXCEPT !.EndHi = time \div 256, !.EndLo = time % 256]
ArgoWrem3_getScheduleTimerStopMinutes(a) == a.EndHi * 256 + a.EndLo

ArgoWrem3_setScheduleTimerActiveDays(a, days) == [a EXCEPT !.ActiveDays = days]

(* Read from the other end than the flaps are numbered from. *)
ArgoWrem3_Vanes == <<"Lowest", "Low", "Middle", "UpperMiddle", "High", "Highest", "Off">>
ArgoWrem3_toCommonSwingV(position) == IF position \in 1..7 THEN ArgoWrem3_Vanes[position] ELSE "Auto"

(* Of a control message, and of a timer's what belongs to it. *)
ArgoWrem3_toCommon(a) ==
    [power |-> a.Power, mode |-> Argo_toCommonMode(a.Mode),
     degrees |-> a.Temp + ArgoWrem3_TempDelta, sensor |-> a.RoomTemp + ArgoWrem3_TempDelta,
     iFeel |-> "iFeel" \in a.flags, fan |-> Argo_toCommonFanSpeed(a.Fan),
     swingv |-> ArgoWrem3_toCommonSwingV(a.Flap), quiet |-> "Night" \in a.flags,
     econo |-> "Eco" \in a.flags, turbo |-> "Max" \in a.flags,
     filter |-> "Filter" \in a.flags, light |-> "Light" \in a.flags]
ArgoWrem3_toCommonTimer(a) == [power |-> a.IsOn, clock |-> a.CurrentTime,
                               sleep |-> ArgoWrem3_getDelayTimerMinutes(a)]

ArgoWrem3_argoWrem3_ACCommand(w) ==
    LET control == ArgoWrem3_setPower(ArgoWrem3_stateReset("AC_CONTROL"), w.power)
        cooled == ArgoWrem3_setTemp(ArgoWrem3_setMode(control, Argo_convertMode(w.mode)),
                                    w.degrees)
        felt == IF w.sensor # -100 THEN ArgoWrem3_setSensorTemp(cooled, w.sensor)
                ELSE cooled
        fanned == ArgoWrem3_setFlap(ArgoWrem3_setFan(felt, Argo_convertFan(w.fan)),
                                    Argo_convertSwingV(w.swingv))
    IN [fanned EXCEPT !.flags =
          {f \in {"iFeel", "Night", "Eco", "Max", "Filter", "Light"} :
             CASE f = "iFeel" -> w.iFeel [] f = "Night" -> w.quiet
               [] f = "Eco" -> w.econo [] f = "Max" -> w.turbo
               [] f = "Filter" -> w.filter [] f = "Light" -> w.light}]

ArgoWrem3_argoWrem3_iFeelReport(sensor) ==
    ArgoWrem3_setSensorTemp(ArgoWrem3_stateReset("IFEEL_TEMP_REPORT"), sensor)

(* clock and sleep of the state are a setting's number and its value; what *)
(* is not safe is not sent.                                                *)
ArgoWrem3_SafeConfig(key, value) ==
    \/ key = 5 /\ value <= 1
    \/ key = 6 /\ value <= 3
    \/ key = 12 /\ value \in 30..99
ArgoWrem3_argoWrem3_ConfigSet(key, value) ==
    ArgoWrem3_setConfigEntry(ArgoWrem3_stateReset("CONFIG_PARAM_SET"), key, value)

(* -1, none, is the longest of all in 16 bits without a sign. *)
ArgoWrem3_argoWrem3_SetTimer(w) ==
    LET timer == ArgoWrem3_setTimerType(ArgoWrem3_setPower(ArgoWrem3_stateReset("TIMER_COMMAND"), w.power), 1)
    IN ArgoWrem3_setDelayTimerMinutes(ArgoWrem3_setCurrentTimeMinutes(timer, w.clock % 65536),
                                      w.sleep % 65536)

ArgoWrem3_Wishes == [power : BOOLEAN, mode : opmode_t, degrees : {9, 20}, sensor : {-100},
                     fan : fanspeed_t, swingv : swingv_t, iFeel : BOOLEAN,
                     quiet : {FALSE}, econo : {TRUE}, turbo : {FALSE}, filter : {FALSE},
                     light : {TRUE}]
ArgoWrem3_Timers == [power : BOOLEAN, clock : {-1, 600}, sleep : {-1, 0, 64, 1185}]

ArgoWrem3_Init == ac \in {ArgoWrem3_argoWrem3_ACCommand(w) : w \in ArgoWrem3_Wishes} \cup
                         {ArgoWrem3_argoWrem3_iFeelReport(t) : t \in {0, 20, 40}} \cup
                         {ArgoWrem3_argoWrem3_ConfigSet(k, 30) : k \in {k \in 0..20 : ArgoWrem3_SafeConfig(k, 30)}}
                         \cup {ArgoWrem3_argoWrem3_SetTimer(w) : w \in ArgoWrem3_Timers}

ArgoWrem3_Next ==
    \/ \E type \in {"AC_CONTROL", "IFEEL_TEMP_REPORT", "TIMER_COMMAND",
                    "CONFIG_PARAM_SET"} : ac' = ArgoWrem3_stateReset(type)
    \/ ac.type \in {"AC_CONTROL", "TIMER_COMMAND"} /\ ac' = ArgoWrem3_setPower(ac, TRUE)
    \/ ac.type \in {"AC_CONTROL", "IFEEL_TEMP_REPORT"} /\ ac' = ArgoWrem3_setSensorTemp(ac, 36)
    \/ ac.type = "CONFIG_PARAM_SET" /\ ac' = ArgoWrem3_setConfigEntry(ac, 12, 80)
    \/ /\ ac.type = "AC_CONTROL"
       /\ \/ ac' = ArgoWrem3_setTemp(ac, 33) \/ ac' = ArgoWrem3_setMode(ac, 9)
          \/ ac' = ArgoWrem3_setFan(ac, 7) \/ ac' = ArgoWrem3_setFlap(ac, 8)
          \/ ac' = ArgoWrem3_setChannel(ac, 7)
          \/ ac' = ArgoWrem3_setFlag(ac, "Night", TRUE) \/ ac' = ArgoWrem3_setFlag(ac, "Eco",
                                                                                   FALSE)
    \/ /\ ac.type = "TIMER_COMMAND"
       /\ \/ \E mins \in {634, 1500} :
               \/ ac' = ArgoWrem3_setDelayTimerMinutes(ac, mins)
               \/ ac' = ArgoWrem3_setScheduleTimerStartMinutes(ac, mins)
               \/ ac' = ArgoWrem3_setScheduleTimerStopMinutes(ac, mins)
          \/ \E t \in {3, 7} : ac' = ArgoWrem3_setTimerType(ac, t)
          \/ ac' = ArgoWrem3_setCurrentTimeMinutes(ac, 1500)
          \/ ac' = ArgoWrem3_setCurrentDayOfWeek(ac, 7)
          \/ ac' = ArgoWrem3_setScheduleTimerActiveDays(ac, {0, 6})

ArgoWrem3_TypeOK == ac \in ArgoWrem3_Object

(* Times are put together as they were cut, to the nearest ten minutes and *)
(* never beyond the longest.                                               *)
ArgoWrem3_Rules ==
    ac.type = "TIMER_COMMAND" =>
      \A mins \in {0, 4, 5, 634, 635, 1185, 1190, 1426, 1500} :
        LET delay == ArgoWrem3_getDelayTimerMinutes(ArgoWrem3_setDelayTimerMinutes(ac, mins))
            start == ArgoWrem3_getScheduleTimerStartMinutes(
                       ArgoWrem3_setScheduleTimerStartMinutes(ac, mins))
            stop == ArgoWrem3_getScheduleTimerStopMinutes(
                      ArgoWrem3_setScheduleTimerStopMinutes(ac, mins))
        IN /\ start = stop /\ delay = AtMost(start, ArgoWrem3_DelayTimerMax)
           /\ start % 10 = 0
           /\ mins < ArgoWrem3_ScheduleTimerMax => start - mins \in -4..5

(* A message that was read is sent as it was read, a timer's too, but for  *)
(* the position of the flap.                                               *)
ArgoWrem3_Rereads ==
    /\ ac.type = "AC_CONTROL" =>
         SameState(ArgoWrem3_toCommon(ac),
                   ArgoWrem3_toCommon(ArgoWrem3_argoWrem3_ACCommand(ArgoWrem3_toCommon(ac))),
                   {"swingv"})
    /\ ac.type = "TIMER_COMMAND" =>
         ArgoWrem3_toCommonTimer(ArgoWrem3_argoWrem3_SetTimer(ArgoWrem3_toCommonTimer(ac))) = ArgoWrem3_toCommonTimer(ac)

-----------------------------------------------------------------------------
Init ==
    \/ remote = "Argo" /\ Argo_Init
    \/ remote = "ArgoWrem3" /\ ArgoWrem3_Init

Next ==
    /\ UNCHANGED remote
    /\ \/ remote = "Argo" /\ Argo_Next
       \/ remote = "ArgoWrem3" /\ ArgoWrem3_Next

Spec == Init /\ [][Next]_<<remote, ac>>

(* The object stays one that its message can carry. *)
TypeOK ==
    CASE remote = "Argo" -> Argo_TypeOK
      [] remote = "ArgoWrem3" -> ArgoWrem3_TypeOK
      [] OTHER -> TRUE

(* What a class says of its settings together, see there. *)
Rules ==
    CASE remote = "Argo" -> Argo_Rules
      [] remote = "ArgoWrem3" -> ArgoWrem3_Rules
      [] OTHER -> TRUE

(* A state that was read from a message is sent as it was read, see there. *)
Rereads ==
    CASE remote = "Argo" -> Argo_Rereads
      [] remote = "ArgoWrem3" -> ArgoWrem3_Rereads
      [] OTHER -> TRUE
=============================================================================
