-------------------------------- MODULE Boot --------------------------------
(***************************************************************************)
(* How an actuator board comes up: the pins as board.h sets them, and      *)
(* main() of actuator/main.c, which reads the board's address from its     *)
(* connector, starts the motor, calibrates it, and starts the motion,      *)
(* RS-485 and comm drivers.  motionStart creates a thread of the highest   *)
(* priority, which preempts main from then on.                             *)
(***************************************************************************)
EXTENDS Calibration, Sequences

VARIABLES
    strap,      \* how the connector ties ADDR0 and ADDR1
    addr,       \* _local_addr
    at,         \* the step of main() that comes next
    pad,        \* mode, output level and pull-up of the pins
    pwmcfg,     \* pwmcfg.period
    pwmoffset,  \* MD1.pwmoffset
    started     \* peripherals and objects that have been initialised and started

bootVars == <<strap, addr, at, pad, pwmcfg, pwmoffset, started>>
boardVars == <<calVars, bootVars>>

(***************************************************************************)
(* board.h: the pins after halInit                                         *)
(***************************************************************************)

Input == [mode |-> "input", odr |-> 0, pullup |-> FALSE]
Analog == [Input EXCEPT !.mode = "analog"]
Output(level) == [Input EXCEPT !.mode = "output", !.odr = level]
Alternate(n) == [Input EXCEPT !.mode = n]

\* The pins not named are unused or spare inputs.
GPIOA == [TIM1_CH1 |-> Alternate("af1"), TIM1_CH2 |-> Alternate("af1")]

GPIOB ==
    [VREF |-> Analog, MOTOR_EN |-> Output(0), POS_NEN |-> Output(1),
     POS_TCCEN |-> [Input EXCEPT !.pullup = TRUE],
     USART3_TX |-> Alternate("af7"), USART3_RX |-> Alternate("af7"),
     LED0 |-> Input, RS485_TXEN |-> Output(0)]

GPIOC ==
    [POS_SIN |-> Analog, POS_COS |-> Analog,
     ADDR0 |-> Input, ADDR1 |-> Input, ADDROUT |-> Input]

Pins == DOMAIN GPIOA \cup DOMAIN GPIOB \cup DOMAIN GPIOC

pal_default_config ==
    [p \in Pins |-> IF p \in DOMAIN GPIOA THEN GPIOA[p]
                    ELSE IF p \in DOMAIN GPIOB THEN GPIOB[p] ELSE GPIOC[p]]

\* What a pin drives: nothing unless it is an output or pulled up.
Level(p) ==
    IF pad[p].mode = "output" THEN pad[p].odr ELSE IF pad[p].pullup THEN 1 ELSE 0

SetPads(levels) ==
    pad' = [p \in Pins |-> IF p \in DOMAIN levels THEN [pad[p] EXCEPT !.odr = levels[p]]
                                                  ELSE pad[p]]

(***************************************************************************)
(* addrLoad                                                                *)
(***************************************************************************)

Ties == {"GND", "VCC", "HIZ"}

\* An open pin follows ADDROUT.
Reads(tie, out) == IF tie = "GND" THEN 0 ELSE IF tie = "VCC" THEN 1 ELSE out

\* H1 H0 L1 L0: both pins with ADDROUT high, then both with ADDROUT low.
Code(s) == <<Reads(s[2], 1), Reads(s[1], 1), Reads(s[2], 0), Reads(s[1], 0)>>

AddrOf(code) ==
    CASE code = <<0, 0, 0, 0>> -> "HEAD_YAW"
      [] code = <<1, 0, 1, 0>> -> "HEAD_PITCH"
      [] code = <<0, 1, 0, 1>> -> "SPINE"
      [] code = <<1, 1, 1, 1>> -> "PURR"
      [] code = <<1, 1, 0, 1>> -> "RIBS"
      [] OTHER -> "INVALID"

\* ADDROUT is driven low, then high, then left floating with its bit set.
addrLoad ==
    /\ at = "addrLoad"
    /\ addr' = AddrOf(Code(strap))
    /\ SetPads([ADDROUT |-> 1])
    /\ at' = IF addr' = "INVALID" THEN "halted" ELSE "motorInit"
    /\ UNCHANGED <<calVars, strap, pwmcfg, pwmoffset, started>>

IsPurr == addr = "PURR"

(***************************************************************************)
(* The motor                                                               *)
(***************************************************************************)

pwmoffsetOf(period) == period - 127

motorInit ==
    /\ at = "motorInit" /\ at' = "motorStart"
    /\ pwmcfg' = IF IsPurr THEN 207 ELSE 306
    /\ pwmoffset' = pwmoffsetOf(pwmcfg')
    /\ started' = started \cup {"motor"}
    /\ UNCHANGED <<calVars, strap, addr, pad>>

motorStart ==
    /\ at = "motorStart"
    /\ at' = IF IsPurr THEN "render" ELSE "motorCalibrate"
    /\ SetPads([MOTOR_EN |-> 0, POS_TCCEN |-> 1, POS_NEN |-> 0])
    /\ started' = started \cup {"pwm", "adc"}
    /\ UNCHANGED <<calVars, strap, addr, pwmcfg, pwmoffset>>

\* RIBS 100, SPINE -100, HEAD_PITCH 90, HEAD_YAW 110.
CallCalibrate ==
    /\ at = "motorCalibrate" /\ at' = "calibrating"
    /\ motorCalibrate(IF addr = "SPINE" THEN -1 ELSE 1)
    /\ UNCHANGED <<strap, addr, pad, pwmcfg, pwmoffset, started>>

\* A sample, with the motor driven, or the end of a run, which turns it off.
Calibrating ==
    /\ at = "calibrating"
    /\ CalStep
    /\ SetPads([MOTOR_EN |-> IF cal = "stop" THEN 0 ELSE 1])
    /\ at' = IF cal' = "done" THEN "render" ELSE at
    /\ UNCHANGED <<strap, addr, pwmcfg, pwmoffset, started>>

(***************************************************************************)
(* The drivers                                                             *)
(***************************************************************************)

\* Mutant: the motion thread starts before its buffers are loaded.
PoolAfterMotion(step) ==
    CASE step = "render" -> "motion" [] step = "motion" -> "pool"
      [] step = "pool" -> "rs485" [] step = "rs485" -> "comm" [] step = "comm" -> "led"

After(step) ==
    CASE step = "render" -> "pool" [] step = "pool" -> "motion"
      [] step = "motion" -> "rs485" [] step = "rs485" -> "comm" [] step = "comm" -> "led"

\* motionStart also starts the timer; the others are one object each.
StartDriver ==
    /\ at \in {"pool", "motion", "rs485", "comm"}
    /\ at' = After(at)
    /\ started' = started \cup {at}
    /\ UNCHANGED <<calVars, strap, addr, pad, pwmcfg, pwmoffset>>

\* The purr motor is rendered in pulses, the others by a PID controller, whose
\* first setpoint is where the arm is.
StartRender ==
    /\ at = "render"
    /\ at' = After(at)
    /\ started' = started \cup {"render"}
    /\ IF IsPurr THEN UNCHANGED calVars ELSE motorCPosition
    /\ UNCHANGED <<strap, addr, pad, pwmcfg, pwmoffset>>

\* LED0 becomes an output, and off.
SetupLed ==
    /\ at = "led" /\ at' = "serve"
    /\ pad' = [pad EXCEPT !["LED0"] = Output(0)]
    /\ UNCHANGED <<calVars, strap, addr, pwmcfg, pwmoffset, started>>

\* commHandle: the LED shows whether the last command failed.
Serve ==
    /\ at = "serve"
    /\ \E led \in {0, 1} : SetPads([LED0 |-> led])
    /\ UNCHANGED <<calVars, strap, addr, at, pwmcfg, pwmoffset, started>>

\* driver_thread, from the moment motionStart has created it.
ThreadRuns ==
    /\ "motion" \in started
    /\ \/ \E en \in {0, 1} : SetPads([MOTOR_EN |-> en]) /\ UNCHANGED calVars
       \/ ~IsPurr /\ motorCPosition /\ UNCHANGED pad
    /\ UNCHANGED <<strap, addr, at, pwmcfg, pwmoffset, started>>

\* chSysHalt: the address is invalid.
Halted == at = "halted" /\ UNCHANGED boardVars

(***************************************************************************)
(* Specification                                                           *)
(***************************************************************************)

BootInit ==
    /\ CalInit
    /\ strap \in Ties \X Ties
    /\ addr = "INVALID" /\ at = "addrLoad"
    /\ pad = pal_default_config
    /\ pwmcfg = 306 /\ pwmoffset = 0
    /\ started = {}

BootNext ==
    \/ addrLoad \/ motorInit \/ motorStart \/ CallCalibrate \/ Calibrating
    \/ StartRender \/ StartDriver \/ SetupLed \/ Serve \/ ThreadRuns
    \/ Halted

BootSpec == BootInit /\ [][BootNext]_boardVars

(***************************************************************************)
(* Properties                                                              *)
(***************************************************************************)

BootTypeOK ==
    /\ CalTypeOK
    /\ pwmcfg \in {306, 207} /\ pwmoffset \in 0 .. 306
    /\ started \subseteq {"motor", "pwm", "adc", "render", "pool", "motion", "rs485", "comm"}

\* The full-scale value is the whole period: on with a lower offset it would be
\* weaker, with a higher one constantly on (motor.c:82-91).
DrivesWithPeriod == "pwm" \in started /\ pwmoffset + 127 = pwmcfg

\* The PWM channels reach their pins and the position sensor is on.
DriveWired == pad["TIM1_CH1"].mode = "af1" /\ pad["TIM1_CH2"].mode = "af1"

SensorReady ==
    /\ "adc" \in started
    /\ Level("POS_NEN") = 0 /\ Level("POS_TCCEN") = 1
    /\ \A p \in {"POS_SIN", "POS_COS", "VREF"} : pad[p].mode = "analog"

\* Nothing is used before it is ready, although motionStart's thread preempts
\* main in the middle of start-up and the board's kind changes what is
\* started: the bridge is enabled only with the PWM running at this motor's
\* period, positions are sampled with the sensor on, the thread finds its
\* renderer and its buffers, and a board without an address moves nothing
\* (main.c:84-165, motor.c:80-112, board.h:163-492).
ReadyBeforeUse ==
    /\ Level("MOTOR_EN") = 1 => DrivesWithPeriod /\ DriveWired /\ addr # "INVALID"
    /\ cal \notin {"off", "begin"} => SensorReady
    /\ "motion" \in started => {"render", "pool", "motor"} \subseteq started
    /\ at = "serve" => /\ {"motion", "rs485", "comm"} \subseteq started
                       /\ Level("RS485_TXEN") = 0

\* The table of addr.h: the address of a board by the ties of ADDR0 and ADDR1.
Table ==
    {[ties |-> <<"VCC", "HIZ">>, addr |-> "RIBS"], [ties |-> <<"VCC", "VCC">>, addr |-> "PURR"],
     [ties |-> <<"VCC", "GND">>, addr |-> "SPINE"], [ties |-> <<"GND", "VCC">>, addr |-> "HEAD_YAW"],
     [ties |-> <<"GND", "GND">>, addr |-> "HEAD_PITCH"]}

\* A board has the address that the table gives its connector (addr.h:31-43).
\* The code gives the two head boards each other's (addr.c:57-58), and with it
\* the other's calibration.
AddressAsDocumented ==
    at # "addrLoad" => \A row \in Table : row.ties = strap => row.addr = addr
=============================================================================
