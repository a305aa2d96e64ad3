----------------------------- MODULE BootProofs -----------------------------
(***************************************************************************)
(* Coming up and calibrating, for any circle of angles, any number of      *)
(* samples, any speeds and ranges of the arm: nothing is used before it is *)
(* ready, the arm's range is found, and afterwards only what leaves it moves *)
(* its upper bound.                                                        *)
(***************************************************************************)
EXTENDS Boot, TLAPS

(***************************************************************************)
(* Coming up                                                               *)
(***************************************************************************)

PadMode == {"input", "analog", "output", "af1", "af7"}
Pad == [mode : PadMode, odr : {0, 1}, pullup : BOOLEAN]

\* Which pins there are and what board.h makes of the ones that matter.
LEMMA PinsKnown ==
    /\ Pins = {"TIM1_CH1", "TIM1_CH2", "VREF", "MOTOR_EN", "POS_NEN", "POS_TCCEN",
               "USART3_TX", "USART3_RX", "LED0", "RS485_TXEN",
               "POS_SIN", "POS_COS", "ADDR0", "ADDR1", "ADDROUT"}
    /\ pal_default_config \in [Pins -> Pad]
<1>1. DOMAIN GPIOA = {"TIM1_CH1", "TIM1_CH2"}
  BY DEF GPIOA
<1>2. DOMAIN GPIOB = {"VREF", "MOTOR_EN", "POS_NEN", "POS_TCCEN",
                      "USART3_TX", "USART3_RX", "LED0", "RS485_TXEN"}
  BY DEF GPIOB
<1>3. DOMAIN GPIOC = {"POS_SIN", "POS_COS", "ADDR0", "ADDR1", "ADDROUT"}
  BY DEF GPIOC
<1>4. Input \in Pad /\ Analog \in Pad /\ Output(0) \in Pad /\ Output(1) \in Pad
      /\ Alternate("af1") \in Pad /\ Alternate("af7") \in Pad
      /\ [Input EXCEPT !.pullup = TRUE] \in Pad
  BY DEF Input, Analog, Output, Alternate, Pad, PadMode
<1>5. \A p \in DOMAIN GPIOA : GPIOA[p] \in Pad
  BY <1>4, <1>1 DEF GPIOA
<1>6. \A p \in DOMAIN GPIOB : GPIOB[p] \in Pad
  <2>1. /\ GPIOB.VREF = Analog /\ GPIOB.MOTOR_EN = Output(0) /\ GPIOB.POS_NEN = Output(1)
        /\ GPIOB.POS_TCCEN = [Input EXCEPT !.pullup = TRUE]
        /\ GPIOB.USART3_TX = Alternate("af7") /\ GPIOB.USART3_RX = Alternate("af7")
        /\ GPIOB.LED0 = Input /\ GPIOB.RS485_TXEN = Output(0)
    BY DEF GPIOB
  <2> QED BY <1>2, <1>4, <2>1
<1>7. \A p \in DOMAIN GPIOC : GPIOC[p] \in Pad
  BY <1>4, <1>3 DEF GPIOC
<1>8. Pins = DOMAIN GPIOA \cup DOMAIN GPIOB \cup DOMAIN GPIOC
  BY DEF Pins
<1>9. pal_default_config \in [Pins -> Pad]
  <2>1. ASSUME NEW p \in Pins
        PROVE  (IF p \in DOMAIN GPIOA THEN GPIOA[p]
                ELSE IF p \in DOMAIN GPIOB THEN GPIOB[p] ELSE GPIOC[p]) \in Pad
    <3>1. CASE p \in DOMAIN GPIOA
      BY <1>5, <3>1
    <3>2. CASE p \notin DOMAIN GPIOA /\ p \in DOMAIN GPIOB
      BY <1>6, <3>2
    <3>3. CASE p \notin DOMAIN GPIOA /\ p \notin DOMAIN GPIOB
      BY <1>7, <1>8, <3>3
    <3> QED BY <3>1, <3>2, <3>3
  <2> QED BY <2>1 DEF pal_default_config
<1> QED BY <1>1, <1>2, <1>3, <1>8, <1>9

\* The pins that matter as board.h sets them.
LEMMA PinsAtReset ==
    /\ pal_default_config["TIM1_CH1"] = Alternate("af1")
    /\ pal_default_config["TIM1_CH2"] = Alternate("af1")
    /\ \A p \in {"POS_SIN", "POS_COS", "VREF"} : pal_default_config[p] = Analog
    /\ pal_default_config["MOTOR_EN"] = Output(0)
    /\ pal_default_config["POS_NEN"] = Output(1)
    /\ pal_default_config["POS_TCCEN"] = [Input EXCEPT !.pullup = TRUE]
    /\ pal_default_config["RS485_TXEN"] = Output(0)
<1>1. DOMAIN GPIOA = {"TIM1_CH1", "TIM1_CH2"}
  BY DEF GPIOA
<1>2. DOMAIN GPIOB = {"VREF", "MOTOR_EN", "POS_NEN", "POS_TCCEN",
                      "USART3_TX", "USART3_RX", "LED0", "RS485_TXEN"}
  BY DEF GPIOB
<1>3. \A p \in DOMAIN GPIOA : pal_default_config[p] = GPIOA[p]
  BY DEF pal_default_config, Pins
<1>4. \A p \in DOMAIN GPIOB : pal_default_config[p] = GPIOB[p]
  BY <1>1, <1>2 DEF pal_default_config, Pins
<1>5. \A p \in {"POS_SIN", "POS_COS"} : pal_default_config[p] = GPIOC[p]
  BY <1>1, <1>2, PinsKnown DEF pal_default_config
<1>6. /\ GPIOA.TIM1_CH1 = Alternate("af1") /\ GPIOA.TIM1_CH2 = Alternate("af1")
      /\ GPIOB.VREF = Analog /\ GPIOB.MOTOR_EN = Output(0) /\ GPIOB.POS_NEN = Output(1)
      /\ GPIOB.POS_TCCEN = [Input EXCEPT !.pullup = TRUE] /\ GPIOB.RS485_TXEN = Output(0)
      /\ GPIOC.POS_SIN = Analog /\ GPIOC.POS_COS = Analog
  BY DEF GPIOA, GPIOB, GPIOC
<1> QED BY <1>1, <1>2, <1>3, <1>4, <1>5, <1>6

\* A pin keeps its mode; SetPads gives some of them another level.
LEMMA PadsSet ==
    ASSUME pad \in [Pins -> Pad], NEW levels, SetPads(levels),
           \A p \in DOMAIN levels : levels[p] \in {0, 1}
    PROVE  /\ pad' \in [Pins -> Pad]
           /\ \A p \in Pins : /\ pad'[p].mode = pad[p].mode /\ pad'[p].pullup = pad[p].pullup
                              /\ pad'[p].odr = IF p \in DOMAIN levels THEN levels[p] ELSE pad[p].odr
BY DEF SetPads, Pad

(***************************************************************************)
(* The order of start-up                                                   *)
(***************************************************************************)

\* What has been started when main() is at a step.
StartedBefore(step) ==
    CASE step \in {"addrLoad", "halted", "motorInit"} -> {}
      [] step = "motorStart" -> {"motor"}
      [] step \in {"motorCalibrate", "calibrating", "render"} -> {"motor", "pwm", "adc"}
      [] step = "pool" -> {"motor", "pwm", "adc", "render"}
      [] step = "motion" -> {"motor", "pwm", "adc", "render", "pool"}
      [] step = "rs485" -> {"motor", "pwm", "adc", "render", "pool", "motion"}
      [] step = "comm" -> {"motor", "pwm", "adc", "render", "pool", "motion", "rs485"}
      [] step \in {"led", "serve"} ->
             {"motor", "pwm", "adc", "render", "pool", "motion", "rs485", "comm"}

Steps ==
    {"addrLoad", "halted", "motorInit", "motorStart", "motorCalibrate", "calibrating",
     "render", "pool", "motion", "rs485", "comm", "led", "serve"}

Early == {"addrLoad", "halted", "motorInit", "motorStart"}

InOrder ==
    /\ at \in Steps
    /\ started = StartedBefore(at)
    /\ at \notin {"addrLoad", "halted"} => addr # "INVALID"
    /\ at \notin {"addrLoad", "halted", "motorInit"} => pwmoffset + 127 = pwmcfg
    /\ at \in Early \cup {"motorCalibrate"} => cal = "off"

\* A pin but the LED's keeps the mode that board.h gives it.
PadsInOrder ==
    /\ pad \in [Pins -> Pad]
    /\ \A p \in Pins \ {"LED0"} : /\ pad[p].mode = pal_default_config[p].mode
                                  /\ pad[p].pullup = pal_default_config[p].pullup
    /\ pad["RS485_TXEN"].odr = 0
    /\ at \in Early => pad["MOTOR_EN"].odr = 0
    /\ at \notin Early => pad["POS_NEN"].odr = 0

BootInv == InOrder /\ PadsInOrder

\* Start-up begins in order, and each of its steps keeps the order and the pins.
LEMMA BootStarts == BootInit => BootInv
<1> SUFFICES ASSUME BootInit PROVE BootInv
  OBVIOUS
<1>1. InOrder
  BY DEF BootInit, CalInit, InOrder, Steps, StartedBefore, Early
<1>2. at = "addrLoad" /\ pad = pal_default_config
  BY DEF BootInit
<1>3. pad["RS485_TXEN"].odr = 0 /\ pad["MOTOR_EN"].odr = 0
  BY <1>2, PinsAtReset DEF Output, Input
<1> QED BY <1>1, <1>2, <1>3, PinsKnown DEF BootInv, PadsInOrder, Early

LEMMA InOrderNext ==
    ASSUME InOrder, [BootNext]_boardVars
    PROVE  InOrder'
<1> USE DEF InOrder, Steps, StartedBefore, Early
<1>1. CASE addrLoad
  BY <1>1 DEF addrLoad, calVars
<1>2. CASE motorInit
  BY <1>2 DEF motorInit, pwmoffsetOf, calVars
<1>3. CASE motorStart
  BY <1>3 DEF motorStart, calVars
<1>4. CASE CallCalibrate
  BY <1>4 DEF CallCalibrate
<1>5. CASE Calibrating
  BY <1>5 DEF Calibrating
<1>6. CASE StartRender
  BY <1>6 DEF StartRender, After
<1>7. CASE StartDriver
  BY <1>7 DEF StartDriver, After, calVars
<1>8. CASE SetupLed
  BY <1>8 DEF SetupLed, calVars
<1>9. CASE Serve
  BY <1>9 DEF Serve, calVars
<1>10. CASE ThreadRuns
  <2>1. UNCHANGED <<strap, addr, at, pwmcfg, pwmoffset, started>> /\ "motion" \in started
    BY <1>10 DEF ThreadRuns
  <2>2. at \notin Early \cup {"motorCalibrate"}
    BY <2>1
  <2> QED BY <2>1, <2>2
<1>11. CASE Halted \/ UNCHANGED boardVars
  BY <1>11 DEF Halted, boardVars, bootVars, calVars
<1> QED
  BY <1>1, <1>2, <1>3, <1>4, <1>5, <1>6, <1>7, <1>8, <1>9, <1>10, <1>11 DEF BootNext

LEMMA PadsInOrderNext ==
    ASSUME BootInv, [BootNext]_boardVars
    PROVE  PadsInOrder'
<1>t. pad \in [Pins -> Pad]
  BY DEF BootInv, PadsInOrder
<1>k. {"MOTOR_EN", "POS_NEN", "POS_TCCEN", "LED0", "RS485_TXEN", "ADDROUT"} \subseteq Pins
  BY PinsKnown
<1>1. ASSUME NEW levels, SetPads(levels), \A p \in DOMAIN levels : levels[p] \in {0, 1},
             "RS485_TXEN" \notin DOMAIN levels,
             at' \in Early => at \in Early /\ "MOTOR_EN" \notin DOMAIN levels,
             at' \notin Early =>
                 IF "POS_NEN" \in DOMAIN levels THEN levels["POS_NEN"] = 0 ELSE at \notin Early
      PROVE  PadsInOrder'
  <2>1. /\ pad' \in [Pins -> Pad]
        /\ \A p \in Pins : /\ pad'[p].mode = pad[p].mode /\ pad'[p].pullup = pad[p].pullup
                           /\ pad'[p].odr = IF p \in DOMAIN levels THEN levels[p] ELSE pad[p].odr
    BY <1>1, <1>t, PadsSet
  <2> QED BY <1>1, <1>k, <2>1 DEF BootInv, PadsInOrder
<1>2. ASSUME UNCHANGED pad, at' \in Early <=> at \in Early
      PROVE  PadsInOrder'
  BY <1>2 DEF BootInv, PadsInOrder
<1>3. CASE addrLoad
  BY <1>1, <1>3 DEF addrLoad, Early
<1>4. CASE motorInit
  BY <1>2, <1>4 DEF motorInit, Early
<1>5. CASE motorStart
  BY <1>1, <1>5 DEF motorStart, Early
<1>6. CASE CallCalibrate
  BY <1>2, <1>6 DEF CallCalibrate, Early
<1>7. CASE Calibrating
  BY <1>1, <1>7 DEF Calibrating, Early
<1>8. CASE StartRender \/ StartDriver
  BY <1>2, <1>8 DEF StartRender, StartDriver, After, Early
<1>9. CASE SetupLed
  <2>1. pad' = [pad EXCEPT !["LED0"] = Output(0)] /\ at \notin Early /\ at' \notin Early
    BY <1>9 DEF SetupLed, Early
  <2>2. Output(0) \in Pad
    BY DEF Output, Input, Pad, PadMode
  <2> QED BY <1>t, <1>k, <2>1, <2>2 DEF BootInv, PadsInOrder
<1>10. CASE Serve
  BY <1>1, <1>10 DEF Serve, Early
<1>11. CASE ThreadRuns
  <2>1. at' = at /\ at \notin Early
    BY <1>11 DEF ThreadRuns, BootInv, InOrder, Steps, StartedBefore, Early
  <2> QED BY <1>1, <1>2, <1>11, <2>1 DEF ThreadRuns
<1>12. CASE Halted \/ UNCHANGED boardVars
  BY <1>2, <1>12 DEF Halted, boardVars, bootVars
<1> QED
  BY <1>3, <1>4, <1>5, <1>6, <1>7, <1>8, <1>9, <1>10, <1>11, <1>12 DEF BootNext

\* Whatever the connector, the mechanics and the preempting thread do, nothing
\* is used before it is ready.
THEOREM BootsInOrder == BootSpec => []ReadyBeforeUse
<1>1. BootInv => ReadyBeforeUse
  <2> SUFFICES ASSUME BootInv PROVE ReadyBeforeUse
    OBVIOUS
  <2>1. /\ pad["TIM1_CH1"].mode = "af1" /\ pad["TIM1_CH2"].mode = "af1"
        /\ \A p \in {"POS_SIN", "POS_COS", "VREF"} : pad[p].mode = "analog"
        /\ pad["MOTOR_EN"].mode = "output" /\ pad["POS_NEN"].mode = "output"
        /\ pad["POS_TCCEN"].mode = "input" /\ pad["POS_TCCEN"].pullup
        /\ pad["RS485_TXEN"].mode = "output" /\ pad["RS485_TXEN"].odr = 0
    <3>1. \A p \in {"TIM1_CH1", "TIM1_CH2", "POS_SIN", "POS_COS", "VREF", "MOTOR_EN",
                    "POS_NEN", "POS_TCCEN", "RS485_TXEN"} :
              pad[p].mode = pal_default_config[p].mode
      BY PinsKnown DEF BootInv, PadsInOrder
    <3>2. /\ Alternate("af1").mode = "af1" /\ Analog.mode = "analog"
          /\ Output(0).mode = "output" /\ Output(1).mode = "output"
          /\ [Input EXCEPT !.pullup = TRUE].mode = "input"
      BY DEF Alternate, Analog, Output, Input
    <3>3. pad["POS_TCCEN"].pullup
      <4>1. pad["POS_TCCEN"].pullup = pal_default_config["POS_TCCEN"].pullup
        BY PinsKnown DEF BootInv, PadsInOrder
      <4>2. [Input EXCEPT !.pullup = TRUE].pullup = TRUE
        BY DEF Input
      <4> QED BY <4>1, <4>2, PinsAtReset, Zenon
    <3>4. pad["RS485_TXEN"].odr = 0
      BY DEF BootInv, PadsInOrder
    <3>5. /\ pad["TIM1_CH1"].mode = "af1" /\ pad["TIM1_CH2"].mode = "af1"
          /\ \A p \in {"POS_SIN", "POS_COS", "VREF"} : pad[p].mode = "analog"
          /\ pad["MOTOR_EN"].mode = "output" /\ pad["POS_NEN"].mode = "output"
          /\ pad["POS_TCCEN"].mode = "input" /\ pad["RS485_TXEN"].mode = "output"
      <4>1. /\ pal_default_config["TIM1_CH1"].mode = "af1"
            /\ pal_default_config["TIM1_CH2"].mode = "af1"
            /\ pal_default_config["MOTOR_EN"].mode = "output"
            /\ pal_default_config["POS_NEN"].mode = "output"
            /\ pal_default_config["POS_TCCEN"].mode = "input"
            /\ pal_default_config["RS485_TXEN"].mode = "output"
        BY <3>2, PinsAtReset
      <4>2. \A p \in {"POS_SIN", "POS_COS", "VREF"} : pal_default_config[p].mode = "analog"
        BY <3>2, PinsAtReset
      <4> QED BY <3>1, <4>1, <4>2
    <3> QED BY <3>3, <3>4, <3>5, Zenon
  <2>2. at \notin Early => SensorReady
    BY <2>1 DEF BootInv, PadsInOrder, InOrder, Steps, StartedBefore, Early, SensorReady, Level
  <2>3. Level("MOTOR_EN") = 1 => at \notin Early
    BY <2>1 DEF Level, BootInv, PadsInOrder
  <2>4. at \notin Early => DrivesWithPeriod /\ DriveWired /\ addr # "INVALID"
    BY <2>1 DEF BootInv, InOrder, Steps, StartedBefore, Early, DrivesWithPeriod, DriveWired
  <2>5. cal \notin {"off", "begin"} => at \notin Early
    BY DEF BootInv, InOrder
  <2>6. "motion" \in started => {"render", "pool", "motor"} \subseteq started
    BY DEF BootInv, InOrder, Steps, StartedBefore
  <2>7. at = "serve" => {"motion", "rs485", "comm"} \subseteq started
    BY DEF BootInv, InOrder, StartedBefore
  <2>8. Level("RS485_TXEN") = 0
    BY <2>1 DEF Level
  <2> QED BY <2>2, <2>3, <2>4, <2>5, <2>6, <2>7, <2>8 DEF ReadyBeforeUse
<1>2. BootInv /\ [BootNext]_boardVars => BootInv'
  BY InOrderNext, PadsInOrderNext DEF BootInv
<1> QED BY <1>1, <1>2, BootStarts, PTL DEF BootSpec

(***************************************************************************)
(* Angles                                                                  *)
(***************************************************************************)

\* A remainder differs from its dividend by whole turns.
LEMMA Turns ==
    ASSUME NEW y \in Int
    PROVE  y % C \in 0 .. C - 1 /\ \E k \in Int : y % C = y + C * k
<1>0. C \in Nat \ {0}
  BY CircleAssumption
<1> DEFINE q == y \div C
<1>1. q \in Int /\ y % C \in 0 .. C - 1 /\ y = C * q + (y % C)
  BY <1>0
<1>2. y % C = y + C * (-q) /\ -q \in Int
  BY <1>0, <1>1
<1> QED BY <1>1, <1>2

\* Two remainders whose dividends are less than a turn apart.
LEMMA TurnsApart ==
    ASSUME NEW r \in 0 .. C - 1, NEW s \in 0 .. C - 1, NEW d \in -(C - 1) .. C - 1,
           NEW k \in Int, s - r = d + C * k
    PROVE  s - r \in {d - C, d, d + C}
<1>0. C \in Nat \ {0}
  BY CircleAssumption
<1>1. ASSUME k >= 2 PROVE FALSE
  <2>1. C * k >= 2 * C
    BY <1>0, <1>1
  <2> QED BY <1>0, <2>1
<1>2. ASSUME k <= -2 PROVE FALSE
  <2>1. C * k <= -(2 * C)
    BY <1>0, <1>2
  <2> QED BY <1>0, <2>1
<1>3. k \in {-1, 0, 1}
  BY <1>1, <1>2
<1> QED BY <1>0, <1>3

\* Remainders a number of turns apart are equal.
LEMMA SameAngle ==
    ASSUME NEW r \in 0 .. C - 1, NEW s \in 0 .. C - 1, NEW k \in Int, s = r + C * k
    PROVE  s = r
<1>1. C \in Nat \ {0} /\ 0 \in -(C - 1) .. C - 1
  BY CircleAssumption
<1>2. s - r = 0 + C * k
  BY <1>1
<1>3. s - r \in {0 - C, 0, 0 + C}
  BY <1>1, <1>2, TurnsApart
<1> QED BY <1>1, <1>3

\* calc_pos gives the angle, or before the swap its mirror image, up to turns.
LEMMA PosForm ==
    ASSUME NEW low \in Int, NEW x \in Int
    PROVE  /\ (low + x) % C \in 0 .. C - 1
           /\ \A s \in BOOLEAN : calc_pos((low + x) % C, s) \in 0 .. C - 1
           /\ \E k \in Int : calc_pos((low + x) % C, TRUE) = low + x + C * k
           /\ \E k \in Int : calc_pos((low + x) % C, FALSE) = C \div 4 - low - x + C * k
<1> DEFINE a == (low + x) % C
<1>1. PICK k \in Int : a = low + x + C * k
  BY Turns
<1>2. a \in 0 .. C - 1
  BY Turns
<1>3. calc_pos(a, TRUE) = a
  BY DEF calc_pos
<1>4. C \in Nat \ {0} /\ C \div 4 \in Int
  BY CircleAssumption
<1> DEFINE b == C \div 4 - a
<1>5. b \in Int
  BY <1>2, <1>4
<1>6. calc_pos(a, FALSE) = b % C
  BY DEF calc_pos
<1> HIDE DEF b
<1>7. b % C \in 0 .. C - 1
  BY <1>5, Turns
<1>8. PICK m \in Int : b % C = b + C * m
  BY <1>5, Turns
<1>9. b = C \div 4 - low - x - C * k
  BY <1>1, <1>4 DEF b
<1>10. C * (m - k) = C * m - C * k /\ m - k \in Int
  BY <1>4
<1>11. b % C = C \div 4 - low - x + C * (m - k)
  BY <1>4, <1>8, <1>9, <1>10
<1>12. \A s \in BOOLEAN : calc_pos(a, s) \in 0 .. C - 1
  <2> SUFFICES ASSUME NEW s \in BOOLEAN PROVE calc_pos(a, s) \in 0 .. C - 1
    OBVIOUS
  <2>1. CASE s = TRUE
    BY <1>2, <1>3, <2>1
  <2>2. CASE s = FALSE
    BY <1>6, <1>7, <2>2
  <2> QED BY <2>1, <2>2
<1> QED BY <1>1, <1>2, <1>3, <1>6, <1>10, <1>11, <1>12

\* What the sensor shows of a movement of less than a turn: the movement, or
\* its reverse before sine and cosine are swapped, give or take a turn.
LEMMA MovementSeen ==
    ASSUME NEW low \in Int, NEW x \in Int, NEW y \in Int, NEW s \in BOOLEAN,
           y - x \in -(C - 1) .. C - 1,
           NEW d, d = IF s THEN y - x ELSE x - y
    PROVE  calc_pos((low + y) % C, s) - calc_pos((low + x) % C, s) \in {d - C, d, d + C}
<1>0. C \in Nat \ {0} /\ C \div 4 \in Int
  BY CircleAssumption
<1> DEFINE p == calc_pos((low + x) % C, s)
           q == calc_pos((low + y) % C, s)
<1>1. p \in 0 .. C - 1 /\ q \in 0 .. C - 1
  BY PosForm
<1>d. d \in -(C - 1) .. C - 1
  BY <1>0
<1>2. \E k \in Int : q - p = d + C * k
  <2>1. CASE s = TRUE
    <3>1. PICK k \in Int : p = low + x + C * k
      <4>1. \E z \in Int : calc_pos((low + x) % C, TRUE) = low + x + C * z
        BY PosForm
      <4> QED BY <2>1, <4>1
    <3>2. PICK m \in Int : q = low + y + C * m
      <4>1. \E z \in Int : calc_pos((low + y) % C, TRUE) = low + y + C * z
        BY PosForm
      <4> QED BY <2>1, <4>1
    <3> HIDE DEF p, q
    <3>3. C * (m - k) = C * m - C * k /\ m - k \in Int
      BY <1>0
    <3>4. q - p = d + C * (m - k)
      BY <1>0, <2>1, <3>1, <3>2, <3>3
    <3> QED BY <3>3, <3>4
  <2>2. CASE s = FALSE
    <3>1. PICK k \in Int : p = C \div 4 - low - x + C * k
      <4>1. \E z \in Int : calc_pos((low + x) % C, FALSE) = C \div 4 - low - x + C * z
        BY PosForm
      <4> QED BY <2>2, <4>1
    <3>2. PICK m \in Int : q = C \div 4 - low - y + C * m
      <4>1. \E z \in Int : calc_pos((low + y) % C, FALSE) = C \div 4 - low - y + C * z
        BY PosForm
      <4> QED BY <2>2, <4>1
    <3> HIDE DEF p, q
    <3>3. C * (m - k) = C * m - C * k /\ m - k \in Int
      BY <1>0
    <3>4. q - p = d + C * (m - k)
      BY <1>0, <2>2, <3>1, <3>2, <3>3
    <3> QED BY <3>3, <3>4
  <2> QED BY <2>1, <2>2
<1> HIDE DEF p, q
<1>3. q - p \in {d - C, d, d + C}
  BY <1>1, <1>d, <1>2, TurnsApart
<1> QED BY <1>3 DEF p, q

(***************************************************************************)
(* The arm                                                                 *)
(***************************************************************************)

Reading == [angle : 0 .. C - 1, pos : 0 .. C - 1]
Run == [start : Reading, next : Reading, increasing : BOOLEAN]

Looking == {"begin", "home", "turn", "sweep", "stop"}

\* Where a run that drives the arm in direction d ends.
FirstEnd(d) == IF d = 1 THEN rig.range ELSE 0
SecondEnd(d) == IF d = 1 THEN rig.range + rig.give ELSE -rig.give
EndOf(h, d) == IF h = 1 THEN FirstEnd(d) ELSE SecondEnd(d)

ToGo(d) == IF d = 1 THEN EndOf(half, 1) - arm ELSE arm - EndOf(half, -1)

CalKnown ==
    /\ CalTypeOK
    /\ run \in [{1, 2} -> Run]
    /\ cal # "off" => pwm \in {-1, 1}
    /\ cal = "off" => arm \in FirstEnd(-1) .. FirstEnd(1)
    /\ cal \in Looking => arm \in EndOf(half, -1) .. EndOf(half, 1)

LEMMA RigKnown ==
    ASSUME rig \in Rigs
    PROVE  /\ rig.low \in 0 .. C - 1 /\ rig.range \in 2 .. MaxRange /\ rig.give \in {0, 2}
           /\ rig.speed \in Nat \ {0} /\ rig.speed \in Speeds /\ rig.speed + Wrap < C
           /\ C \in Nat \ {0} /\ Wrap \in Nat \ {0} /\ MaxRange \in Nat /\ MaxRange + 2 < C
<1>1. rig.low \in 0 .. C - 1 /\ rig.range \in 2 .. MaxRange /\ rig.give \in {0, 2} /\ rig.speed \in Speeds
  BY DEF Rigs
<1>2. rig.speed \in Nat \ {0} /\ rig.speed + Wrap < C
  BY <1>1, CircleAssumption, MechanicsAssumption
<1>3. C \in Nat \ {0} /\ Wrap \in Nat \ {0} /\ MaxRange \in Nat /\ MaxRange + 2 < C
  BY CircleAssumption, MechanicsAssumption
<1> QED BY <1>1, <1>2, <1>3

LEMMA ReadingType ==
    ASSUME rig \in Rigs, NEW x \in Int, NEW s \in BOOLEAN
    PROVE  /\ sample_calc(x, s) \in Reading
           /\ Recalc(sample_calc(x, s)) = sample_calc(x, TRUE)
           /\ sample_calc(x, s).pos = calc_pos((rig.low + x) % C, s)
<1>1. rig.low \in Int
  BY RigKnown
<1>2. Angle(x) \in 0 .. C - 1 /\ calc_pos(Angle(x), s) \in 0 .. C - 1
  BY <1>1, PosForm DEF Angle
<1>3. sample_calc(x, s) \in Reading
  BY <1>2 DEF sample_calc, Reading
<1>4. Recalc(sample_calc(x, s)) = sample_calc(x, TRUE)
  <2> DEFINE a == Angle(x)
             p == calc_pos(a, s)
             q == calc_pos(a, TRUE)
  <2> HIDE DEF a, p, q
  <2>1. [[angle |-> a, pos |-> p] EXCEPT !.pos = q] = [angle |-> a, pos |-> q]
    OBVIOUS
  <2>2. sample_calc(x, s) = [angle |-> a, pos |-> p] /\ sample_calc(x, TRUE) = [angle |-> a, pos |-> q]
    BY Zenon DEF sample_calc, a, p, q
  <2>3. [angle |-> a, pos |-> p].angle = a
    OBVIOUS
  <2>4. Recalc([angle |-> a, pos |-> p]) = [[angle |-> a, pos |-> p] EXCEPT !.pos = q]
    BY <2>3, Zenon DEF Recalc, q
  <2> QED BY <2>1, <2>2, <2>4, Zenon
<1>5. sample_calc(x, s).pos = calc_pos((rig.low + x) % C, s)
  BY DEF sample_calc, Angle
<1> QED BY <1>3, <1>4, <1>5

\* Between two samples the arm turns by its speed, or less up to where it stops.
LEMMA Turning ==
    ASSUME CalKnown, cal \in Looking, NEW d \in {-1, 1}
    PROVE  /\ Turned(d) \in EndOf(half, -1) .. EndOf(half, 1)
           /\ Turned(d) \in Int /\ arm \in Int
           /\ d * (Turned(d) - arm) \in 0 .. rig.speed
           /\ Turned(d) = arm <=> arm = EndOf(half, d)
           /\ \/ Turned(d) = EndOf(half, d)
              \/ Turned(d) = arm + d * rig.speed /\ ToGo(d) > rig.speed
<1>1. /\ rig.range \in Nat /\ rig.give \in {0, 2} /\ rig.speed \in Nat \ {0}
      /\ half \in {1, 2} /\ arm \in EndOf(half, -1) .. EndOf(half, 1)
  <2>1. rig \in Rigs
    BY DEF CalKnown, CalTypeOK
  <2>2. rig.range \in Nat /\ rig.give \in {0, 2} /\ rig.speed \in Nat \ {0}
    BY <2>1, RigKnown
  <2> QED BY <2>2 DEF CalKnown, CalTypeOK
<1>2. CASE d = 1
  BY <1>1, <1>2 DEF Turned, Clip, ToGo, EndOf, FirstEnd, SecondEnd
<1>3. CASE d = -1
  BY <1>1, <1>3 DEF Turned, Clip, ToGo, EndOf, FirstEnd, SecondEnd
<1> QED BY <1>2, <1>3

\* Two readings of a movement that short: they are equal only if there was
\* none, and what is no wrap is the movement.
LEMMA Shows ==
    ASSUME rig \in Rigs, NEW x \in Int, NEW y \in Int, NEW s \in BOOLEAN,
           y - x \in -rig.speed .. rig.speed,
           NEW d, d = IF s THEN y - x ELSE x - y
    PROVE  LET p == sample_calc(x, s)
               q == sample_calc(y, s)
           IN  /\ Still(p, q) <=> x = y
               /\ ~Wrapped(p, q) => q.pos - p.pos = d
               /\ p.pos \in Int /\ q.pos \in Int
<1> DEFINE p == sample_calc(x, s)
           q == sample_calc(y, s)
<1>1. /\ rig.low \in Int /\ C \in Nat \ {0} /\ Wrap \in Nat \ {0}
      /\ rig.speed \in Nat \ {0} /\ rig.speed + Wrap < C
  BY RigKnown
<1>2. p.pos \in 0 .. C - 1 /\ q.pos \in 0 .. C - 1
  BY ReadingType DEF Reading
<1>3. y - x \in -(C - 1) .. C - 1
  BY <1>1
<1>4. q.pos - p.pos \in {d - C, d, d + C}
  <2>1. calc_pos((rig.low + y) % C, s) - calc_pos((rig.low + x) % C, s) \in {d - C, d, d + C}
    BY <1>1, <1>3, MovementSeen
  <2>2. p.pos = calc_pos((rig.low + x) % C, s) /\ q.pos = calc_pos((rig.low + y) % C, s)
    BY ReadingType
  <2> QED BY <2>1, <2>2, Zenon
<1>5. d \in -rig.speed .. rig.speed /\ (d = 0 <=> x = y)
  BY <1>1
<1> HIDE DEF p, q
<1>6. Still(p, q) <=> x = y
  BY <1>1, <1>2, <1>4, <1>5 DEF Still
<1>7. ~Wrapped(p, q) => q.pos - p.pos = d
  BY <1>1, <1>2, <1>4, <1>5 DEF Wrapped, Magnitude
<1> QED BY <1>2, <1>6, <1>7 DEF p, q

(***************************************************************************)
(* Types                                                                   *)
(***************************************************************************)

LEMMA KnownAtStart == CalInit => CalKnown
<1> SUFFICES ASSUME CalInit PROVE CalKnown
  OBVIOUS
<1>1. rig \in Rigs /\ arm = 2 /\ i = 0 /\ half = 1 /\ pwm = 0 /\ cal = "off" /\ offset = 0 /\ hibound = 0
  BY DEF CalInit
<1>2. swapped \in BOOLEAN /\ inversed \in BOOLEAN
  BY Zenon DEF CalInit
<1>3. 2 \in FirstEnd(-1) .. FirstEnd(1) /\ C \in Nat \ {0} /\ MaxRange \in Nat
  BY <1>1, RigKnown DEF FirstEnd
<1>4. NoRun \in Run
  <2>1. NoSample \in Reading
    BY <1>3 DEF NoSample, Reading
  <2> QED BY <2>1 DEF NoRun, Run
<1>5. run \in [{1, 2} -> Run]
  BY <1>4 DEF CalInit
<1> QED BY <1>1, <1>2, <1>3, <1>5, CircleAssumption DEF CalKnown, CalTypeOK, Looking

LEMMA ArmBounds ==
    ASSUME rig \in Rigs, NEW h \in {1, 2}, NEW x \in EndOf(h, -1) .. EndOf(h, 1)
    PROVE  x \in -(2 + Over) .. MaxRange + 2 + Over
BY RigKnown, CircleAssumption DEF EndOf, FirstEnd, SecondEnd

LEMMA KnownAfterMove ==
    ASSUME CalKnown, Begin \/ Home \/ Turn \/ Sweep
    PROVE  CalKnown'
<1>1. /\ rig \in Rigs /\ half \in {1, 2} /\ swapped \in BOOLEAN /\ inversed \in BOOLEAN
      /\ pwm \in {-1, 1} /\ cal \in Looking /\ run \in [{1, 2} -> Run] /\ i \in 0 .. Samples - 1
      /\ arm \in EndOf(half, -1) .. EndOf(half, 1)
  BY DEF CalKnown, CalTypeOK, Begin, Home, Turn, Sweep, Looking
<1>2. Dir \in {-1, 1} /\ -Dir \in {-1, 1}
  BY <1>1 DEF Dir
<1>3. /\ arm' \in EndOf(half, -1) .. EndOf(half, 1) /\ arm' \in Int
      /\ UNCHANGED <<rig, pwm, half, offset, hibound>>
  BY <1>1, <1>2, Turning DEF Begin, Home, Turn, Sweep
<1>4. /\ cal' \in {"home", "turn", "sweep", "stop"} /\ i' \in 0 .. Samples - 1
  BY <1>1, CircleAssumption DEF Begin, Home, Turn, Sweep, LastSample
<1>5. swapped' \in BOOLEAN /\ inversed' \in BOOLEAN
  BY <1>1 DEF Begin, Home, Turn, Sweep
<1>6. run' \in [{1, 2} -> Run]
  <2> DEFINE next == sample_calc(arm', swapped)
  <2>1. next \in Reading /\ Recalc(next) \in Reading
    <3>1. sample_calc(arm', TRUE) \in Reading
      BY <1>1, <1>3, ReadingType
    <3> QED BY <1>1, <1>3, <3>1, ReadingType
  <2>2. Recalc(run[half].start) \in Reading
    <3>1. run[half].start \in Reading
      BY <1>1 DEF Run
    <3>2. \A a \in 0 .. C - 1 : calc_pos(a, TRUE) = a
      BY DEF calc_pos
    <3> QED BY <3>1, <3>2 DEF Recalc, Reading
  <2> HIDE DEF next
  <2>3. CASE Begin
    <3>1. run' = [run EXCEPT ![half].next = next]
      BY <2>3 DEF Begin, next
    <3> QED BY <1>1, <2>1, <3>1 DEF Run
  <2>4. CASE Home
    <3>1. \E b \in BOOLEAN :
             run' = [run EXCEPT ![half].start = IF b THEN next ELSE @, ![half].next = next]
      BY <2>4 DEF Home, LastSample, Still, next
    <3> QED BY <1>1, <2>1, <3>1 DEF Run
  <2>5. CASE Turn
    <3> DEFINE b == Increasing(run[half].start, next)
    <3>1. run' = [run EXCEPT ![half].next = next, ![half].increasing = b]
      BY <2>5 DEF Turn, next
    <3>2. b \in BOOLEAN
      BY DEF Increasing
    <3> HIDE DEF b
    <3> QED BY <1>1, <2>1, <3>1, <3>2 DEF Run
  <2>6. CASE Sweep
    <3>1. PICK b \in BOOLEAN :
             run' = [run EXCEPT ![half].next = IF b THEN Recalc(next) ELSE next,
                                ![half].start = IF b THEN Recalc(@) ELSE @]
      BY <2>6 DEF Sweep, Incongruent, next
    <3> QED BY <1>1, <2>1, <2>2, <3>1 DEF Run
  <2> QED BY <2>3, <2>4, <2>5, <2>6
<1>7. arm' \in -(2 + Over) .. MaxRange + 2 + Over
  BY <1>1, <1>3, ArmBounds
<1>8. CalTypeOK'
  BY <1>1, <1>3, <1>4, <1>5, <1>7 DEF CalKnown, CalTypeOK
<1>9. EndOf(half, -1)' = EndOf(half, -1) /\ EndOf(half, 1)' = EndOf(half, 1)
  BY <1>3 DEF EndOf, FirstEnd, SecondEnd
<1> QED BY <1>1, <1>3, <1>4, <1>6, <1>8, <1>9 DEF CalKnown

LEMMA RangeType ==
    ASSUME CalKnown, NEW x \in Int
    PROVE  /\ CPosition(x) \in 0 .. C - 1 /\ FailedCPosition \in 0 .. C - 1
           /\ Stretched(CPosition(x)) \in 0 .. C - 1 /\ Stretched(FailedCPosition) \in 0 .. C - 1
<1>1. /\ rig \in Rigs /\ inversed \in BOOLEAN
      /\ offset \in 0 .. C - 1 /\ hibound \in 0 .. C - 1
  BY DEF CalKnown, CalTypeOK
<1>2. C \in Nat /\ rig.low \in Int
  BY <1>1, RigKnown
<1> DEFINE p == calc_pos((rig.low + x) % C, inversed)
<1>3. p \in 0 .. C - 1
  BY <1>1, <1>2, PosForm
<1>4. CPosition(x) = (p - offset + C) % C
  BY DEF CPosition, Angle
<1> HIDE DEF p
<1>5. p - offset + C \in Int /\ 0 - offset + C \in Int
  BY <1>1, <1>2, <1>3
<1>6. CPosition(x) \in 0 .. C - 1 /\ FailedCPosition \in 0 .. C - 1
  BY <1>4, <1>5, Turns DEF FailedCPosition
<1> QED BY <1>1, <1>6 DEF Stretched

LEMMA KnownAfterStop ==
    ASSUME CalKnown, Stop
    PROVE  CalKnown'
<1>1. /\ rig \in Rigs /\ run \in [{1, 2} -> Run] /\ half \in {1, 2}
      /\ arm \in EndOf(half, -1) .. EndOf(half, 1)
      /\ UNCHANGED <<rig, arm, pwm, i, swapped, run, inversed>>
  BY DEF CalKnown, CalTypeOK, Stop, Looking
<1>2. CASE half = 1
  <2>1. half' = 2 /\ cal' = "begin" /\ UNCHANGED <<offset, hibound>>
    BY <1>2 DEF Stop
  <2>2. arm' \in EndOf(half, -1)' .. EndOf(half, 1)'
    BY <1>1, <1>2, <2>1, RigKnown DEF EndOf, FirstEnd, SecondEnd
  <2>3. CalTypeOK'
    BY <1>1, <2>1 DEF CalKnown, CalTypeOK
  <2>4. cal # "off"
    BY DEF Stop
  <2> QED BY <1>1, <2>1, <2>2, <2>3, <2>4 DEF CalKnown
<1>3. CASE half = 2
  <2>1. \A h \in {1, 2} : run[h].start.pos \in 0 .. C - 1 /\ run[h].next.pos \in 0 .. C - 1
    BY <1>1 DEF Run, Reading
  <2>2. C \in Nat \ {0}
    BY CircleAssumption
  <2>3. \A x, y \in 0 .. C - 1 : (x + y) \div 2 \in 0 .. C - 1
    BY <2>2
  <2>4. Mean(run[1].start, run[2].next) \in 0 .. C - 1 /\ Mean(run[1].next, run[2].start) \in 0 .. C - 1
    BY <2>1, <2>3 DEF Mean
  <2>5. cal' = "done" /\ half' = half /\ offset' \in 0 .. C - 1
    BY <1>3, <2>4 DEF Stop
  <2>6. hibound' \in 0 .. C - 1
    <3>1. PICK lo \in 0 .. C - 1, hi \in 0 .. C - 1 : hibound' = (hi - lo + C) % C
      BY <1>3, <2>4 DEF Stop
    <3>2. hi - lo + C \in Int
      BY <2>2
    <3> QED BY <3>1, <3>2, Turns
  <2>7. CalTypeOK'
    BY <1>1, <2>5, <2>6 DEF CalKnown, CalTypeOK
  <2>8. cal # "off" /\ cal' \notin Looking
    BY <2>5 DEF Stop, Looking
  <2> QED BY <1>1, <2>5, <2>7, <2>8 DEF CalKnown
<1> QED BY <1>1, <1>2, <1>3

LEMMA KnownInUse ==
    ASSUME CalKnown, motorCPosition
    PROVE  CalKnown'
<1>1. rig \in Rigs /\ cal' = "used" /\ cal # "off" /\ Over \in Nat
  BY CircleAssumption DEF CalKnown, CalTypeOK, motorCPosition, Use, UseFailed
<1>2. CASE Use
  <2>1. PICK x \in Reach : arm' = x /\ hibound' = Stretched(CPosition(x))
    BY <1>2 DEF Use
  <2>2. x \in -(2 + Over) .. MaxRange + 2 + Over /\ x \in Int
    BY <1>1, RigKnown DEF Reach
  <2>3. hibound' \in 0 .. C - 1
    BY <2>1, <2>2, RangeType
  <2> QED BY <1>1, <1>2, <2>1, <2>2, <2>3 DEF Use, CalKnown, CalTypeOK, Looking
<1>3. CASE UseFailed
  <2>1. hibound' \in 0 .. C - 1
    BY <1>3, RangeType DEF UseFailed
  <2> QED BY <1>1, <1>3, <2>1 DEF UseFailed, CalKnown, CalTypeOK, Looking
<1> QED BY <1>2, <1>3 DEF motorCPosition

LEMMA KnownWhenCalled ==
    ASSUME CalKnown, NEW s \in {-1, 1}, motorCalibrate(s)
    PROVE  CalKnown'
<1>1. /\ cal = "off" /\ cal' = "begin" /\ pwm' = s /\ half' = 1
      /\ swapped' = FALSE /\ inversed' = FALSE
      /\ UNCHANGED <<rig, arm, i, run, offset, hibound>>
  BY DEF motorCalibrate
<1>2. swapped' \in BOOLEAN /\ inversed' \in BOOLEAN
  BY <1>1, Zenon
<1>3. CalTypeOK'
  BY <1>1, <1>2 DEF CalKnown, CalTypeOK
<1> QED BY <1>1, <1>3 DEF CalKnown, EndOf, FirstEnd

LEMMA KnownUnchanged ==
    ASSUME CalKnown, UNCHANGED calVars
    PROVE  CalKnown'
BY DEF calVars, CalKnown, CalTypeOK, EndOf, FirstEnd, SecondEnd

(***************************************************************************)
(* Finding the range                                                       *)
(***************************************************************************)

\* The arm gets to a stop before the loop that drives it there gives up.
Timing ==
    /\ cal = "home" => ToGo(-Dir) <= (Samples - i) * rig.speed
    /\ cal = "turn" => arm = EndOf(half, -Dir) /\ i = 0
    /\ cal = "sweep" => ToGo(Dir) <= (Samples - i) * rig.speed
    /\ cal = "stop" => arm = EndOf(half, Dir)

\* The samples kept are those of where the arm is and of the stops it came to.
Shown ==
    /\ cal \in {"home", "sweep", "stop"} => run[half].next = sample_calc(arm, swapped)
    /\ cal \in {"turn", "sweep", "stop"} =>
           run[half].start = sample_calc(EndOf(half, -Dir), swapped)
    /\ cal \in Looking /\ half = 2 =>
           /\ run[1].start = sample_calc(FirstEnd(-pwm), TRUE)
           /\ run[1].next = sample_calc(FirstEnd(pwm), TRUE)

\* The first run takes the direction from unswapped readings and then, at the
\* first movement it sees, swaps them; the second leaves it at that.
Direction ==
    /\ cal \in {"begin", "home", "turn"} /\ half = 1 => ~swapped /\ ~inversed
    /\ cal = "sweep" /\ half = 1 => (inversed <=> swapped)
    /\ cal = "stop" \/ (cal \in Looking /\ half = 2) => swapped /\ inversed
    /\ cal \in {"sweep", "stop"} \/ (cal \in Looking /\ half = 2) => (run[1].increasing <=> pwm = 1)
    /\ cal = "sweep" /\ half = 1 /\ ~swapped =>
           arm = Way(i + 1) /\ \A k \in 1 .. i : ~Visible(k)

Found ==
    /\ cal \in {"done", "used"} => inversed /\ offset = Angle(LowEnd) /\ hibound >= Width
    /\ cal = "done" => hibound = Width

CalInv == CalKnown /\ (WellMounted => Timing /\ Shown /\ Direction /\ Found)

LEMMA RigUnchanged ==
    ASSUME UNCHANGED <<rig, pwm>>
    PROVE  /\ WellMounted' <=> WellMounted
           /\ \A x : Angle(x)' = Angle(x)
           /\ \A x, s : sample_calc(x, s)' = sample_calc(x, s)
           /\ \A d : FirstEnd(d)' = FirstEnd(d)
           /\ \A k : Way(k)' = Way(k) /\ Visible(k)' = Visible(k)
           /\ Width' = Width /\ LowEnd' = LowEnd
<1>1. \A x : Angle(x)' = Angle(x)
  BY DEF Angle
<1>2. \A k : Way(k)' = Way(k)
  BY DEF Way
<1>3. \A k : Visible(k)' = Visible(k)
  BY <1>1, <1>2 DEF Visible
<1>4. WellMounted' <=> WellMounted
  BY <1>1, <1>3, Zenon DEF WellMounted, StopsApartFromSeam, LongEnough
<1>5. \A x, s : sample_calc(x, s)' = sample_calc(x, s)
  BY <1>1 DEF sample_calc
<1>6. Width' = Width /\ LowEnd' = LowEnd /\ \A d : FirstEnd(d)' = FirstEnd(d)
  BY DEF Width, LowEnd, FirstEnd
<1> QED BY <1>1, <1>2, <1>3, <1>4, <1>5, <1>6

\* A step of the arm takes its speed off the way, or what is left of it.
LEMMA StepToGo ==
    ASSUME CalKnown, cal \in Looking, NEW d \in {-1, 1}, NEW m \in Nat,
           ToGo(d) <= (m + 1) * rig.speed, arm' = Turned(d), UNCHANGED <<rig, half>>
    PROVE  /\ ToGo(d)' <= m * rig.speed
           /\ m = 0 \/ arm' = arm => arm' = EndOf(half, d)
<1>1. rig.speed \in Nat \ {0} /\ rig.range \in Nat /\ rig.give \in {0, 2} /\ half \in {1, 2}
  <2>1. rig \in Rigs
    BY DEF CalKnown, CalTypeOK
  <2>2. rig.speed \in Nat \ {0} /\ rig.range \in Nat /\ rig.give \in {0, 2}
    BY <2>1, RigKnown
  <2> QED BY <2>2 DEF CalKnown, CalTypeOK
<1>2. \A v \in Nat : (m + 1) * v = m * v + v /\ m * v \in Nat /\ (m = 0 => m * v = 0)
  OBVIOUS
<1>3. (m + 1) * rig.speed = m * rig.speed + rig.speed /\ m * rig.speed \in Nat
  BY <1>1, <1>2
<1>4. m = 0 => m * rig.speed = 0
  BY <1>1, <1>2
<1>5. ToGo(d)' = IF d = 1 THEN EndOf(half, 1) - arm' ELSE arm' - EndOf(half, -1)
  BY DEF ToGo, EndOf, FirstEnd, SecondEnd
<1>t. EndOf(half, 1) \in Int /\ EndOf(half, -1) \in Int
  BY <1>1 DEF EndOf, FirstEnd, SecondEnd
<1>7. ToGo(d) \in Int /\ ToGo(d)' \in Int
  BY <1>t, <1>5, Turning DEF ToGo
<1>8. \/ arm' = EndOf(half, d) /\ ToGo(d)' = 0
      \/ ToGo(d)' = ToGo(d) - rig.speed /\ ToGo(d) > rig.speed
  <2>1. CASE arm' = EndOf(half, d)
    BY <1>t, <1>5, <2>1
  <2>2. CASE arm' = arm + d * rig.speed /\ ToGo(d) > rig.speed
    BY <1>t, <1>1, <1>5, <2>2, Turning DEF ToGo
  <2> QED BY <2>1, <2>2, Turning
<1>9. ToGo(d)' <= m * rig.speed
  BY <1>1, <1>3, <1>7, <1>8
<1>10. m = 0 => arm' = EndOf(half, d)
  BY <1>1, <1>3, <1>4, <1>7, <1>8
<1>11. arm' = arm => arm' = EndOf(half, d)
  BY Turning
<1> QED BY <1>9, <1>10, <1>11

\* The loops are long enough for the way from stop to stop.
LEMMA WholeWay ==
    ASSUME CalKnown, LongEnough, cal \in Looking, NEW d \in {-1, 1}
    PROVE  ToGo(d) <= (Samples + 1) * rig.speed
<1>1. rig.speed \in Nat /\ rig.range \in Nat /\ rig.give \in {0, 2} /\ half \in {1, 2} /\ Samples \in Nat
  <2>1. rig \in Rigs
    BY DEF CalKnown, CalTypeOK
  <2>2. rig.speed \in Nat /\ rig.range \in Nat /\ rig.give \in {0, 2}
    BY <2>1, RigKnown
  <2> QED BY <2>2, CircleAssumption DEF CalKnown, CalTypeOK
<1>2. arm \in EndOf(half, -1) .. EndOf(half, 1)
  BY DEF CalKnown
<1>3. ToGo(d) <= rig.range + 2 * rig.give /\ ToGo(d) \in Int
  BY <1>1, <1>2 DEF ToGo, EndOf, FirstEnd, SecondEnd
<1>4. (Samples + 1) * rig.speed \in Int
  BY <1>1
<1> QED BY <1>1, <1>3, <1>4 DEF LongEnough

\* What two successive samples tell of the step between them.
LEMMA StepSeen ==
    ASSUME CalKnown, cal \in Looking, NEW d \in {-1, 1}, arm' = Turned(d), NEW s \in BOOLEAN
    PROVE  LET p == sample_calc(arm, s)
               q == sample_calc(arm', s)
           IN  /\ Still(p, q) <=> arm' = arm
               /\ Still(q, p) <=> arm' = arm
               /\ ~Wrapped(p, q) => q.pos - p.pos = IF s THEN arm' - arm ELSE arm - arm'
               /\ p.pos \in Int /\ q.pos \in Int
<1> DEFINE p == sample_calc(arm, s)
           q == sample_calc(arm', s)
           e == IF s THEN arm' - arm ELSE arm - arm'
<1>1. rig \in Rigs /\ arm \in Int /\ arm' \in Int /\ rig.speed \in Nat /\ d * (arm' - arm) \in 0 .. rig.speed
  BY RigKnown, Turning DEF CalKnown, CalTypeOK
<1>2. arm' - arm \in -rig.speed .. rig.speed
  BY <1>1
<1> HIDE DEF e
<1>3. /\ Still(p, q) <=> arm = arm'
      /\ ~Wrapped(p, q) => q.pos - p.pos = e
      /\ p.pos \in Int /\ q.pos \in Int
  BY <1>1, <1>2, Shows DEF e
<1>4. Still(q, p) <=> Still(p, q)
  BY DEF Still
<1> QED BY <1>3, <1>4 DEF e

\* What motorCalibrate may rely on while it looks at the arm.
LEMMA LookingFacts ==
    ASSUME CalKnown, cal \in Looking
    PROVE  /\ rig \in Rigs /\ half \in {1, 2} /\ pwm \in {-1, 1}
           /\ Dir \in {-1, 1} /\ -Dir \in {-1, 1} /\ arm \in Int
           /\ i \in 0 .. Samples - 1 /\ Samples \in Nat \ {0}
           /\ swapped \in BOOLEAN /\ inversed \in BOOLEAN /\ run \in [{1, 2} -> Run]
<1>1. /\ rig \in Rigs /\ half \in {1, 2} /\ pwm \in {-1, 1} /\ i \in 0 .. Samples - 1
      /\ Samples \in Nat \ {0} /\ arm \in Int
  BY CircleAssumption DEF CalKnown, CalTypeOK, Looking
<1>2. Dir \in {-1, 1} /\ -Dir \in {-1, 1}
  BY <1>1 DEF Dir
<1>3. swapped \in BOOLEAN /\ inversed \in BOOLEAN /\ run \in [{1, 2} -> Run]
  BY DEF CalKnown, CalTypeOK
<1> QED BY <1>1, <1>2, <1>3

\* The direction of a run and where it ends do not change within it.
LEMMA SameRun ==
    ASSUME UNCHANGED <<rig, pwm, half>>
    PROVE  /\ Dir' = Dir
           /\ EndOf(half, Dir)' = EndOf(half, Dir) /\ EndOf(half, -Dir)' = EndOf(half, -Dir)
           /\ \A d : ToGo(d)' = IF d = 1 THEN EndOf(half, 1) - arm' ELSE arm' - EndOf(half, -1)
BY DEF Dir, EndOf, FirstEnd, SecondEnd, ToGo

\* Each step of motorCalibrate keeps the parts of CalInv.
LEMMA BeginKeeps ==
    ASSUME CalKnown, WellMounted, Timing, Shown, Direction, Begin
    PROVE  Timing' /\ Shown' /\ Direction'
<1>1. cal = "begin" /\ cal' = "home" /\ i' = 0 /\ arm' = Turned(-Dir)
      /\ run' = [run EXCEPT ![half].next = sample_calc(arm', swapped)]
      /\ UNCHANGED <<rig, pwm, half, swapped, inversed, offset, hibound>>
  BY DEF Begin
<1>2. cal \in Looking
  BY <1>1 DEF Looking
<1>3. PICK d \in {-1, 1} : d = -Dir
  BY <1>2, LookingFacts
<1>4. /\ Dir' = Dir /\ Samples \in Nat /\ half \in {1, 2} /\ run \in [{1, 2} -> Run]
      /\ \A x, s : sample_calc(x, s)' = sample_calc(x, s)
      /\ \A e : FirstEnd(e)' = FirstEnd(e)
  BY <1>1, <1>2, LookingFacts, SameRun, RigUnchanged
<1>5. Timing'
  <2>1. ToGo(d) <= (Samples + 1) * rig.speed
    BY <1>2, WholeWay DEF WellMounted
  <2>2. ToGo(d)' <= Samples * rig.speed
    BY <1>1, <1>2, <1>3, <1>4, <2>1, StepToGo
  <2>3. ToGo(-Dir)' = ToGo(d)'
    BY <1>3, <1>4 DEF ToGo
  <2>4. (Samples - i') * rig.speed' = Samples * rig.speed
    BY <1>1, <1>4
  <2> QED BY <1>1, <2>2, <2>3, <2>4 DEF Timing
<1>6. Shown'
  <2>1. run'[half].next = sample_calc(arm', swapped)
    BY <1>1, <1>4 DEF Run
  <2>2. half = 2 => run'[1] = run[1]
    BY <1>1, <1>4
  <2>3. half = 2 => /\ run[1].start = sample_calc(FirstEnd(-pwm), TRUE)
                    /\ run[1].next = sample_calc(FirstEnd(pwm), TRUE)
    BY <1>2 DEF Shown
  <2>4. sample_calc(arm, swapped)' = sample_calc(arm', swapped)
    BY <1>1 DEF sample_calc, Angle
  <2>5. sample_calc(FirstEnd(-pwm), TRUE)' = sample_calc(FirstEnd(-pwm), TRUE)
        /\ sample_calc(FirstEnd(pwm), TRUE)' = sample_calc(FirstEnd(pwm), TRUE)
    BY <1>1 DEF sample_calc, Angle, FirstEnd
  <2> QED BY <1>1, <2>1, <2>2, <2>3, <2>4, <2>5 DEF Shown
<1>7. Direction'
  <2>1. half = 2 => run'[1] = run[1]
    BY <1>1, <1>4
  <2> QED BY <1>1, <1>2, <2>1 DEF Direction, Looking
<1> QED BY <1>5, <1>6, <1>7

LEMMA HomeKeeps ==
    ASSUME CalKnown, WellMounted, Timing, Shown, Direction, Home
    PROVE  Timing' /\ Shown' /\ Direction'
<1> DEFINE next == sample_calc(arm', swapped)
<1>1. cal = "home" /\ arm' = Turned(-Dir)
      /\ UNCHANGED <<rig, pwm, half, swapped, inversed, offset, hibound>>
  BY DEF Home
<1>2. cal \in Looking
  BY <1>1 DEF Looking
<1>3. PICK d \in {-1, 1} : d = -Dir
  BY <1>2, LookingFacts
<1>4. /\ Dir' = Dir /\ Samples \in Nat \ {0} /\ half \in {1, 2} /\ run \in [{1, 2} -> Run]
      /\ i \in 0 .. Samples - 1 /\ swapped \in BOOLEAN
      /\ EndOf(half, -Dir)' = EndOf(half, -Dir)
  BY <1>1, <1>2, LookingFacts, SameRun
<1>5. PICK last \in BOOLEAN :
         /\ last <=> (Still(next, run[half].next) \/ i = Samples - 1)
         /\ run' = [run EXCEPT ![half].start = IF last THEN next ELSE @, ![half].next = next]
         /\ i' = IF last THEN 0 ELSE i + 1
         /\ cal' = IF last THEN "turn" ELSE "home"
  BY DEF Home, LastSample
<1>6. run[half].next = sample_calc(arm, swapped)
  BY <1>1 DEF Shown
<1>7. Still(next, run[half].next) <=> arm' = arm
  BY <1>1, <1>2, <1>3, <1>4, <1>6, StepSeen
<1> HIDE DEF next
<1>8. /\ ToGo(d)' <= (Samples - 1 - i) * rig.speed
      /\ last => arm' = EndOf(half, d)
  <2>1. ToGo(d) <= (Samples - i) * rig.speed
    BY <1>1, <1>3 DEF Timing
  <2>2. PICK m \in Nat : m = Samples - 1 - i
    BY <1>4
  <2>3. ToGo(d) <= (m + 1) * rig.speed
    <3>1. m + 1 = Samples - i
      BY <1>4, <2>2
    <3> QED BY <2>1, <3>1
  <2>4. /\ ToGo(d)' <= m * rig.speed
        /\ m = 0 \/ arm' = arm => arm' = EndOf(half, d)
    BY <1>1, <1>2, <1>3, <2>3, StepToGo
  <2>5. i = Samples - 1 => m = 0
    BY <1>4, <2>2
  <2> QED BY <1>5, <1>7, <2>2, <2>4, <2>5
<1>9. Timing'
  <2>1. CASE last
    <3>1. arm' = EndOf(half, -Dir)' /\ i' = 0 /\ cal' = "turn"
      BY <1>3, <1>4, <1>5, <1>8, <2>1
    <3> QED BY <3>1 DEF Timing
  <2>2. CASE ~last
    <3>1. ToGo(-Dir)' = ToGo(d)'
      BY <1>3, <1>4 DEF ToGo
    <3>2. Samples - i' = Samples - 1 - i
      BY <1>4, <1>5, <2>2
    <3>3. ToGo(-Dir)' <= (Samples - i') * rig.speed'
      BY <1>1, <1>8, <3>1, <3>2
    <3> QED BY <1>5, <2>2, <3>3 DEF Timing
  <2> QED BY <2>1, <2>2
<1>10. Shown'
  <2>1. run'[half].next = next /\ (last => run'[half].start = next)
    BY <1>4, <1>5 DEF Run
  <2>2. half = 2 => run'[1] = run[1]
    BY <1>4, <1>5
  <2>3. half = 2 => /\ run[1].start = sample_calc(FirstEnd(-pwm), TRUE)
                    /\ run[1].next = sample_calc(FirstEnd(pwm), TRUE)
    BY <1>2 DEF Shown
  <2>4. sample_calc(arm, swapped)' = next
    BY <1>1 DEF sample_calc, Angle, next
  <2>5. sample_calc(FirstEnd(-pwm), TRUE)' = sample_calc(FirstEnd(-pwm), TRUE)
        /\ sample_calc(FirstEnd(pwm), TRUE)' = sample_calc(FirstEnd(pwm), TRUE)
    BY <1>1 DEF sample_calc, Angle, FirstEnd
  <2>6. last => sample_calc(EndOf(half, -Dir), swapped)' = next
    <3>1. last => EndOf(half, -Dir)' = arm'
      BY <1>3, <1>4, <1>8
    <3>2. last => sample_calc(EndOf(half, -Dir), swapped)' = sample_calc(arm, swapped)'
      BY <3>1 DEF sample_calc, Angle
    <3> QED BY <2>4, <3>2
  <2> QED BY <1>1, <1>5, <2>1, <2>2, <2>3, <2>4, <2>5, <2>6 DEF Shown
<1>11. Direction'
  <2>1. half = 2 => run'[1] = run[1]
    BY <1>4, <1>5
  <2> QED BY <1>1, <1>2, <1>4, <1>5, <2>1 DEF Direction, Looking
<1> QED BY <1>9, <1>10, <1>11

\* The first run sweeps from one stop, Way(0), sample by sample.
LEMMA WayAlong ==
    ASSUME CalKnown, cal \in Looking, half = 1, NEW n \in Nat
    PROVE  /\ Way(0) = FirstEnd(-pwm) /\ Dir = pwm /\ Way(n) \in Int
           /\ arm = Way(n) => Turned(Dir) = Way(n + 1)
           /\ Way(n) = FirstEnd(pwm) => Way(n + 1) = Way(n)
<1>1. rig.speed \in Nat \ {0} /\ rig.range \in Nat /\ pwm \in {-1, 1}
  BY LookingFacts, RigKnown
<1> DEFINE w == n * rig.speed
<1>2. w \in Nat /\ (n + 1) * rig.speed = w + rig.speed /\ 0 * rig.speed = 0
  <2>1. \A v \in Nat : n * v \in Nat /\ (n + 1) * v = n * v + v /\ 0 * v = 0
    OBVIOUS
  <2> QED BY <1>1, <2>1
<1>3. Dir = pwm
  BY DEF Dir
<1>4. /\ Way(n) = LET x == Clip(w, 0, rig.range) IN IF pwm = 1 THEN x ELSE rig.range - x
      /\ Way(n + 1) = LET x == Clip(w + rig.speed, 0, rig.range) IN IF pwm = 1 THEN x ELSE rig.range - x
      /\ Way(0) = LET x == Clip(0, 0, rig.range) IN IF pwm = 1 THEN x ELSE rig.range - x
  BY <1>2 DEF Way
<1> HIDE DEF w
<1>5. CASE pwm = 1
  BY <1>1, <1>2, <1>3, <1>4, <1>5 DEF Clip, Turned, FirstEnd
<1>6. CASE pwm = -1
  <2>1. \A v \in Nat : (-1) * v = -v
    OBVIOUS
  <2>2. pwm * rig.speed = -rig.speed
    BY <1>1, <1>6, <2>1
  <2>3. Way(0) = rig.range /\ FirstEnd(-pwm) = rig.range /\ FirstEnd(pwm) = 0
    <3>0. pwm # 1
      BY <1>6
    <3>1. -pwm = 1 /\ pwm # 1
      BY <1>1, <3>0
    <3>2. Clip(0, 0, rig.range) = 0
      BY <1>1 DEF Clip
    <3>3. Way(0) = rig.range - 0
      BY <1>4, <3>1, <3>2, Zenon
    <3> QED BY <1>1, <3>1, <3>3 DEF FirstEnd
  <2>4. arm = Way(n) => Clip(arm - rig.speed, 0, rig.range) = Way(n + 1)
    BY <1>1, <1>2, <1>4, <1>6 DEF Clip
  <2>5. arm = Way(n) => Turned(Dir) = Clip(arm - rig.speed, 0, rig.range)
    BY <1>1, <1>2, <1>3, <1>4, <1>6, <2>2 DEF Turned, Clip
  <2>6. Way(n) = 0 => Way(n + 1) = 0
    BY <1>1, <1>2, <1>4, <1>6 DEF Clip
  <2> QED BY <1>1, <1>2, <1>3, <1>4, <1>6, <2>3, <2>4, <2>5, <2>6 DEF Clip
<1> QED BY <1>1, <1>5, <1>6

\* A movement is visible when the unswapped samples differ and do not wrap.
LEMMA VisibleAlong ==
    ASSUME CalKnown, NEW n, NEW x, NEW y, x \in Int, y \in Int, Way(n) = x, Way(n + 1) = y
    PROVE  LET p == sample_calc(x, FALSE)
               q == sample_calc(y, FALSE)
           IN  Visible(n) <=> (~Still(p, q) /\ ~Wrapped(p, q))
<1> DEFINE p == sample_calc(x, FALSE)
           q == sample_calc(y, FALSE)
<1>1. p.pos \in 0 .. C - 1 /\ q.pos \in 0 .. C - 1 /\ C \in Nat /\ Wrap \in Nat
  BY ReadingType, RigKnown DEF Reading, CalKnown, CalTypeOK
<1>2. p.pos = calc_pos(Angle(x), FALSE) /\ q.pos = calc_pos(Angle(y), FALSE)
  BY DEF sample_calc
<1>3. Visible(n) <=> Magnitude(p.pos - q.pos) \in 1 .. Wrap
  BY <1>2, Zenon DEF Visible
<1> HIDE DEF p, q
<1>4. Visible(n) <=> (~Still(p, q) /\ ~Wrapped(p, q))
  BY <1>1, <1>3 DEF Still, Wrapped, Magnitude
<1> QED BY <1>4 DEF p, q

LEMMA TurnKeeps ==
    ASSUME CalKnown, WellMounted, Timing, Shown, Direction, Turn
    PROVE  Timing' /\ Shown' /\ Direction'
<1> DEFINE next == sample_calc(arm', swapped)
           b == Increasing(run[half].start, next)
<1>1. cal = "turn" /\ cal' = "sweep" /\ arm' = Turned(Dir)
      /\ run' = [run EXCEPT ![half].next = next, ![half].increasing = b]
      /\ UNCHANGED <<rig, pwm, half, i, swapped, inversed, offset, hibound>>
  BY DEF Turn
<1>2. cal \in Looking
  BY <1>1 DEF Looking
<1>3. PICK d \in {-1, 1} : d = Dir
  BY <1>2, LookingFacts
<1>4. /\ Dir' = Dir /\ Samples \in Nat \ {0} /\ half \in {1, 2} /\ run \in [{1, 2} -> Run]
      /\ swapped \in BOOLEAN /\ arm \in Int /\ pwm \in {-1, 1}
      /\ EndOf(half, -Dir)' = EndOf(half, -Dir)
  BY <1>1, <1>2, LookingFacts, SameRun
<1>5. arm = EndOf(half, -Dir) /\ i = 0
  BY <1>1 DEF Timing
<1>6. run[half].start = sample_calc(arm, swapped)
  BY <1>1, <1>5 DEF Shown
<1>7. Timing'
  <2>1. ToGo(d) <= (Samples + 1) * rig.speed
    BY <1>2, WholeWay DEF WellMounted
  <2>2. ToGo(d)' <= Samples * rig.speed
    BY <1>1, <1>2, <1>3, <1>4, <2>1, StepToGo
  <2>3. ToGo(Dir)' = ToGo(d)'
    BY <1>3, <1>4 DEF ToGo
  <2>4. (Samples - i') * rig.speed' = Samples * rig.speed
    BY <1>1, <1>4, <1>5
  <2> QED BY <1>1, <2>2, <2>3, <2>4 DEF Timing
<1>8. b \in BOOLEAN
  BY DEF Increasing
<1>9. half = 1 => (b <=> pwm = 1) /\ arm' = Way(1)
  <2> SUFFICES ASSUME half = 1 PROVE (b <=> pwm = 1) /\ arm' = Way(1)
    OBVIOUS
  <2>1. Dir = pwm /\ arm = Way(0) /\ ~swapped
    <3>1. Dir = pwm /\ Way(0) = FirstEnd(-pwm)
      BY <1>2, WayAlong
    <3>2. arm = FirstEnd(-pwm)
      BY <1>5, <3>1 DEF EndOf
    <3>3. ~swapped
      BY <1>1 DEF Direction
    <3> QED BY <3>1, <3>2, <3>3
  <2>2. arm' = Way(1)
    BY <1>1, <1>2, <2>1, WayAlong
  <2> DEFINE p == sample_calc(arm, FALSE)
             q == sample_calc(arm', FALSE)
  <2>3. arm' \in Int /\ d * (arm' - arm) \in 0 .. rig.speed
    BY <1>1, <1>2, <1>3, Turning
  <2>4. /\ Still(p, q) <=> arm' = arm
        /\ ~Wrapped(p, q) => q.pos - p.pos = arm - arm'
        /\ p.pos \in Int /\ q.pos \in Int
    BY <1>1, <1>2, <1>3, StepSeen
  <2>5. ~Still(p, q) /\ ~Wrapped(p, q)
    <3>1. Visible(0)
      BY Zenon DEF WellMounted
    <3>2. Way(0) = arm /\ Way(0 + 1) = arm'
      BY <2>1, <2>2
    <3> QED BY <1>4, <2>3, <3>1, <3>2, VisibleAlong
  <2>6. b <=> p.pos > q.pos
    <3>1. swapped = FALSE
      BY <1>4, <2>1
    <3>2. run[half].start = p /\ next = q
      BY <1>6, <3>1
    <3> HIDE DEF p, q, next
    <3> QED BY <3>2 DEF Increasing
  <2> HIDE DEF p, q, b
  <2>7. q.pos - p.pos = arm - arm' /\ arm' # arm
    BY <2>4, <2>5
  <2>8. p.pos > q.pos <=> arm' > arm
    BY <1>4, <2>3, <2>4, <2>7
  <2>9. arm' > arm <=> pwm = 1
    <3>1. rig.speed \in Nat
      BY <1>2, LookingFacts, RigKnown
    <3>2. CASE d = 1
      BY <1>3, <1>4, <2>1, <2>3, <2>7, <3>1, <3>2
    <3>3. CASE d = -1
      BY <1>3, <1>4, <2>1, <2>3, <2>7, <3>1, <3>3
    <3> QED BY <3>2, <3>3
  <2> QED BY <2>2, <2>6, <2>8, <2>9
<1> HIDE DEF b, next
<1>10. /\ run'[half].next = next /\ run'[half].start = run[half].start /\ run'[half].increasing = b
       /\ half = 2 => run'[1] = run[1]
  BY <1>1, <1>4 DEF Run
<1>11. Shown'
  <2>1. half = 2 => /\ run[1].start = sample_calc(FirstEnd(-pwm), TRUE)
                    /\ run[1].next = sample_calc(FirstEnd(pwm), TRUE)
    BY <1>2 DEF Shown
  <2>2. sample_calc(arm, swapped)' = next
    BY <1>1 DEF sample_calc, Angle, next
  <2>3. sample_calc(FirstEnd(-pwm), TRUE)' = sample_calc(FirstEnd(-pwm), TRUE)
        /\ sample_calc(FirstEnd(pwm), TRUE)' = sample_calc(FirstEnd(pwm), TRUE)
    BY <1>1 DEF sample_calc, Angle, FirstEnd
  <2>4. sample_calc(EndOf(half, -Dir), swapped)' = run[half].start
    <3>1. sample_calc(EndOf(half, -Dir), swapped)' = sample_calc(arm, swapped)
      BY <1>1, <1>4, <1>5 DEF sample_calc, Angle
    <3> QED BY <1>6, <3>1
  <2> QED BY <1>1, <1>10, <2>1, <2>2, <2>3, <2>4 DEF Shown
<1>12. Direction'
  <2>1. Way(i + 1)' = Way(1)
    BY <1>1, <1>5 DEF Way
  <2>2. \A k \in 1 .. i' : FALSE
    BY <1>1, <1>5
  <2>3. CASE half = 1
    <3>1. ~swapped /\ ~inversed
      BY <1>1, <2>3 DEF Direction
    <3>2. (run[1].increasing <=> pwm = 1)'
      BY <1>1, <1>9, <1>10, <2>3
    <3>3. (arm = Way(i + 1))'
      BY <1>9, <2>1, <2>3
    <3> QED BY <1>1, <2>2, <2>3, <3>1, <3>2, <3>3 DEF Direction
  <2>4. CASE half = 2
    <3>1. swapped /\ inversed /\ (run[1].increasing <=> pwm = 1)
      BY <1>2, <2>4 DEF Direction
    <3>2. (run[1].increasing <=> pwm = 1)'
      BY <1>1, <1>10, <2>4, <3>1
    <3> QED BY <1>1, <2>4, <3>1, <3>2 DEF Direction
  <2> QED BY <1>4, <2>3, <2>4
<1> QED BY <1>7, <1>11, <1>12

\* What Sweep does to the run it is in, in either loop iteration.
LEMMA SweepRun ==
    ASSUME CalKnown, Timing, Shown, Direction, Sweep
    PROVE  LET prev == sample_calc(arm, swapped)
               next == sample_calc(arm', swapped)
               swap == Incongruent(prev, next)
               last == arm' = arm \/ i = Samples - 1
           IN  /\ run'[half].next = sample_calc(arm', swapped')
               /\ run'[half].start = sample_calc(EndOf(half, -Dir), swapped')
               /\ run'[half].increasing = run[half].increasing
               /\ half = 2 => run'[1] = run[1]
               /\ swapped' = (swapped \/ swap)
               /\ inversed' = (inversed \/ (swap /\ half = 1))
               /\ swapped' \in BOOLEAN
               /\ i' = IF last THEN 0 ELSE i + 1
               /\ cal' = IF last THEN "stop" ELSE "sweep"
<1> DEFINE prev == sample_calc(arm, swapped)
           next == sample_calc(arm', swapped)
           swap == Incongruent(prev, next)
           start == run[half].start
<1>1. cal = "sweep" /\ arm' = Turned(Dir) /\ cal \in Looking
      /\ UNCHANGED <<rig, pwm, half, offset, hibound>>
  BY DEF Sweep, Looking
<1>2. /\ half \in {1, 2} /\ run \in [{1, 2} -> Run] /\ swapped \in BOOLEAN /\ rig \in Rigs /\ Dir \in {-1, 1}
      /\ arm \in Int
  BY <1>1, LookingFacts
<1>3. run[half].next = prev /\ start = sample_calc(EndOf(half, -Dir), swapped)
  BY <1>1 DEF Shown
<1>4. Still(prev, next) <=> arm' = arm
  BY <1>1, <1>2, StepSeen
<1>5. swap \in BOOLEAN
  BY DEF Incongruent
<1>6. /\ run' = [run EXCEPT ![half].next = IF swap THEN Recalc(next) ELSE next,
                            ![half].start = IF swap THEN Recalc(@) ELSE @]
      /\ swapped' = (swapped \/ swap)
      /\ inversed' = (inversed \/ (swap /\ half = 1))
  BY <1>3, Zenon DEF Sweep
<1>7. LET last == arm' = arm \/ i = Samples - 1 IN
      i' = (IF last THEN 0 ELSE i + 1) /\ cal' = (IF last THEN "stop" ELSE "sweep")
  BY <1>3, <1>4, Zenon DEF Sweep, LastSample
<1>8. arm' \in Int /\ EndOf(half, -Dir) \in Int
  <2>1. arm' \in Int
    BY <1>1, <1>2, Turning
  <2>2. rig.range \in Int /\ rig.give \in Int
    BY <1>2, RigKnown
  <2> QED BY <2>1, <2>2 DEF EndOf, FirstEnd, SecondEnd
<1>9. /\ Recalc(next) = sample_calc(arm', TRUE)
      /\ Recalc(start) = sample_calc(EndOf(half, -Dir), TRUE)
  BY <1>2, <1>3, <1>8, ReadingType
<1>10. swap => swapped' = TRUE
  BY <1>6, Zenon
<1>11. ~swap => swapped' = swapped
  BY <1>2, <1>5, <1>6, Zenon
<1> HIDE DEF swap
<1>12. /\ run'[half].next = IF swap THEN Recalc(next) ELSE next
       /\ run'[half].start = IF swap THEN Recalc(start) ELSE start
       /\ run'[half].increasing = run[half].increasing
       /\ half = 2 => run'[1] = run[1]
  <2> HIDE DEF next
  <2> QED BY <1>2, <1>6 DEF Run
<1>13. /\ run'[half].next = sample_calc(arm', swapped')
       /\ run'[half].start = sample_calc(EndOf(half, -Dir), swapped')
  <2>1. CASE swap
    BY <1>9, <1>10, <1>12, <2>1, Zenon
  <2>2. CASE ~swap
    BY <1>3, <1>11, <1>12, <2>2, Zenon
  <2> QED BY <2>1, <2>2
<1>14. swapped' \in BOOLEAN
  BY <1>2, <1>10, <1>11, Zenon
<1> QED BY <1>6, <1>7, <1>12, <1>13, <1>14, Zenon DEF swap

\* In the first run, before it has swapped: it does so when it sees a movement.
LEMMA SwapWhenVisible ==
    ASSUME CalKnown, Direction, cal = "sweep", half = 1, ~swapped, arm' = Turned(Dir),
           UNCHANGED <<rig, pwm, half>>
    PROVE  /\ arm' = Way(i + 2)
           /\ Incongruent(sample_calc(arm, swapped), sample_calc(arm', swapped)) <=> Visible(i + 1)
<1> DEFINE p == sample_calc(arm, FALSE)
           q == sample_calc(arm', FALSE)
<1>1. cal \in Looking
  BY DEF Looking
<1>2. /\ swapped = FALSE /\ arm = Way(i + 1) /\ i + 1 \in Nat /\ Dir = pwm /\ arm \in Int
      /\ pwm \in {-1, 1} /\ i + 1 + 1 = i + 2
  <2>1. swapped \in BOOLEAN /\ i \in Nat /\ arm \in Int /\ pwm \in {-1, 1}
    BY <1>1, LookingFacts
  <2>2. arm = Way(i + 1)
    BY DEF Direction
  <2>3. Dir = pwm
    BY DEF Dir
  <2>4. swapped = FALSE
    BY <2>1, Zenon
  <2> QED BY <2>1, <2>2, <2>3, <2>4
<1>3. arm' = Way(i + 2)
  BY <1>1, <1>2, WayAlong
<1>4. PICK d \in {-1, 1} : d = Dir
  BY <1>2
<1>5. /\ Still(p, q) <=> arm' = arm
      /\ ~Wrapped(p, q) => q.pos - p.pos = arm - arm'
      /\ p.pos \in Int /\ q.pos \in Int
  BY <1>1, <1>4, StepSeen
<1>6. arm' \in Int /\ d * (arm' - arm) \in 0 .. rig.speed /\ rig.speed \in Nat
  BY <1>1, <1>4, Turning, RigKnown, LookingFacts
<1>7. Visible(i + 1) <=> (~Still(p, q) /\ ~Wrapped(p, q))
  BY <1>2, <1>3, <1>6, VisibleAlong
<1>8. run[1].increasing <=> pwm = 1
  BY DEF Direction
<1>9. /\ sample_calc(arm, swapped) = p /\ sample_calc(arm', swapped) = q
  BY <1>2
<1> HIDE DEF p, q
<1>10. ASSUME ~Still(p, q), ~Wrapped(p, q) PROVE run[half].increasing # (q.pos > p.pos)
  <2>1. q.pos - p.pos = arm - arm' /\ arm # arm'
    BY <1>5, <1>10
  <2>2. (q.pos > p.pos) <=> arm > arm'
    BY <1>2, <1>5, <1>6, <2>1
  <2>3. arm > arm' <=> ~(pwm = 1)
    <3>1. CASE d = 1
      BY <1>2, <1>4, <1>6, <2>1, <3>1
    <3>2. CASE d = -1
      BY <1>2, <1>4, <1>6, <2>1, <3>2
    <3> QED BY <3>1, <3>2
  <2>4. (q.pos > p.pos) <=> ~run[half].increasing
    BY <1>8, <2>2, <2>3
  <2> QED BY <2>4, Zenon
<1>11. Incongruent(p, q) <=> (~Still(p, q) /\ ~Wrapped(p, q))
  BY <1>10, Zenon DEF Incongruent
<1> QED BY <1>3, <1>7, <1>9, <1>11

\* Once the arm has come to the far stop its movement stays invisible.
LEMMA NothingAfterEnd ==
    ASSUME CalKnown, cal \in Looking, half = 1, NEW n \in Nat, Way(n) = FirstEnd(pwm), NEW k \in Nat, k >= n
    PROVE  ~Visible(k)
<1>1. rig.speed \in Nat \ {0} /\ rig.range \in Nat /\ pwm \in {-1, 1} /\ rig \in Rigs
  BY LookingFacts, RigKnown
<1>2. Way(k) = FirstEnd(pwm) /\ FirstEnd(pwm) \in Int
  <2> DEFINE w == n * rig.speed
             z == k * rig.speed
  <2>1. w \in Nat /\ z \in Nat /\ z >= w
    <3>1. \A v \in Nat : n * v \in Nat /\ k * v \in Nat /\ (k - n) * v \in Nat /\ k * v = n * v + (k - n) * v
      <4>1. k - n \in Nat
        OBVIOUS
      <4>2. \A m \in Nat, v \in Nat : m * v \in Nat /\ (n + m) * v = n * v + m * v
        OBVIOUS
      <4>3. n + (k - n) = k
        OBVIOUS
      <4>4. \A v \in Nat : (k - n) * v \in Nat /\ k * v = n * v + (k - n) * v
        BY <4>1, <4>2, <4>3, Zenon
      <4>5. \A v \in Nat : n * v \in Nat /\ k * v \in Nat
        BY <4>2
      <4> QED BY <4>4, <4>5
    <3> DEFINE x == (k - n) * rig.speed
    <3>2. w \in Nat /\ z \in Nat /\ x \in Nat /\ z = w + x
      BY <1>1, <3>1, Zenon
    <3> HIDE DEF w, z, x
    <3> QED BY <3>2
  <2>2. /\ Way(n) = LET x == Clip(w, 0, rig.range) IN IF pwm = 1 THEN x ELSE rig.range - x
        /\ Way(k) = LET x == Clip(z, 0, rig.range) IN IF pwm = 1 THEN x ELSE rig.range - x
    BY DEF Way
  <2> HIDE DEF w, z
  <2> QED BY <1>1, <2>1, <2>2 DEF Clip, FirstEnd
<1>3. Way(k + 1) = Way(k)
  BY <1>2, WayAlong
<1> DEFINE p == sample_calc(Way(k), FALSE)
<1>4. Visible(k) <=> (~Still(p, p) /\ ~Wrapped(p, p))
  BY <1>2, <1>3, VisibleAlong
<1>5. Still(p, p)
  BY DEF Still
<1> QED BY <1>4, <1>5

LEMMA SweepKeeps ==
    ASSUME CalKnown, WellMounted, Timing, Shown, Direction, Sweep
    PROVE  Timing' /\ Shown' /\ Direction'
<1> DEFINE swap == Incongruent(sample_calc(arm, swapped), sample_calc(arm', swapped))
<1>1. cal = "sweep" /\ arm' = Turned(Dir) /\ cal \in Looking
      /\ UNCHANGED <<rig, pwm, half, offset, hibound>>
  BY DEF Sweep, Looking
<1>2. PICK d \in {-1, 1} : d = Dir
  BY <1>1, LookingFacts
<1>3. /\ Dir' = Dir /\ Samples \in Nat \ {0} /\ half \in {1, 2}
      /\ i \in 0 .. Samples - 1 /\ swapped \in BOOLEAN /\ inversed \in BOOLEAN
      /\ EndOf(half, Dir)' = EndOf(half, Dir) /\ EndOf(half, -Dir)' = EndOf(half, -Dir)
  BY <1>1, LookingFacts, SameRun
<1>4. PICK last \in BOOLEAN :
         /\ last <=> arm' = arm \/ i = Samples - 1
         /\ i' = IF last THEN 0 ELSE i + 1
         /\ cal' = IF last THEN "stop" ELSE "sweep"
  BY SweepRun
<1>5. /\ run'[half].next = sample_calc(arm', swapped')
      /\ run'[half].start = sample_calc(EndOf(half, -Dir), swapped')
      /\ run'[half].increasing = run[half].increasing
      /\ half = 2 => run'[1] = run[1]
  BY SweepRun
<1>6. /\ swapped' = (swapped \/ swap)
      /\ inversed' = (inversed \/ (swap /\ half = 1))
      /\ swapped' \in BOOLEAN /\ swap \in BOOLEAN
  <2>1. swap \in BOOLEAN
    BY DEF Incongruent
  <2> QED BY <2>1, SweepRun, Zenon
<1>7. /\ ToGo(d)' <= (Samples - 1 - i) * rig.speed
      /\ last => arm' = EndOf(half, d)
  <2>1. ToGo(d) <= (Samples - i) * rig.speed
    BY <1>1, <1>2 DEF Timing
  <2>2. PICK m \in Nat : m = Samples - 1 - i
    BY <1>3
  <2>3. ToGo(d) <= (m + 1) * rig.speed
    <3>1. m + 1 = Samples - i
      BY <1>3, <2>2
    <3> QED BY <2>1, <3>1
  <2>4. /\ ToGo(d)' <= m * rig.speed
        /\ m = 0 \/ arm' = arm => arm' = EndOf(half, d)
    BY <1>1, <1>2, <2>3, StepToGo
  <2>5. i = Samples - 1 => m = 0
    BY <1>3, <2>2
  <2> QED BY <1>4, <2>2, <2>4, <2>5
<1>8. Timing'
  <2>1. CASE last
    <3>1. arm' = EndOf(half, Dir)' /\ cal' = "stop"
      BY <1>2, <1>3, <1>4, <1>7, <2>1
    <3> QED BY <3>1 DEF Timing
  <2>2. CASE ~last
    <3>1. ToGo(Dir)' = ToGo(d)'
      BY <1>2, <1>3 DEF ToGo
    <3>2. Samples - i' = Samples - 1 - i
      BY <1>3, <1>4, <2>2
    <3>3. ToGo(Dir)' <= (Samples - i') * rig.speed'
      BY <1>1, <1>7, <3>1, <3>2
    <3> QED BY <1>4, <2>2, <3>3 DEF Timing
  <2> QED BY <2>1, <2>2
<1>9. Shown'
  <2>1. half = 2 => /\ run[1].start = sample_calc(FirstEnd(-pwm), TRUE)
                    /\ run[1].next = sample_calc(FirstEnd(pwm), TRUE)
    BY <1>1 DEF Shown
  <2>2. sample_calc(arm, swapped)' = sample_calc(arm', swapped')
    BY <1>1 DEF sample_calc, Angle
  <2>3. sample_calc(EndOf(half, -Dir), swapped)' = sample_calc(EndOf(half, -Dir), swapped')
    BY <1>1, <1>3 DEF sample_calc, Angle
  <2>4. sample_calc(FirstEnd(-pwm), TRUE)' = sample_calc(FirstEnd(-pwm), TRUE)
        /\ sample_calc(FirstEnd(pwm), TRUE)' = sample_calc(FirstEnd(pwm), TRUE)
    BY <1>1 DEF sample_calc, Angle, FirstEnd
  <2> QED BY <1>1, <1>5, <2>1, <2>2, <2>3, <2>4 DEF Shown
<1> HIDE DEF swap
<1>10. (run[1].increasing <=> pwm = 1) /\ (run[1].increasing <=> pwm = 1)'
  <2>1. run[1].increasing <=> pwm = 1
    BY <1>1 DEF Direction
  <2>2. run'[1].increasing = run[1].increasing
    BY <1>3, <1>5
  <2>3. pwm' = pwm
    BY <1>1
  <2> QED BY <2>1, <2>2, <2>3, Zenon
<1>11. CASE half = 2
  <2>1. swapped /\ inversed
    BY <1>1, <1>11 DEF Direction
  <2>2. swapped' /\ inversed'
    BY <1>6, <2>1, Zenon
  <2>3. half' = 2 /\ half' # 1
    BY <1>1, <1>11
  <2>4. Direction'
    BY <1>10, <2>2, <2>3, Zenon DEF Direction
  <2> QED BY <1>8, <1>9, <2>4
<1>12. CASE half = 1
  <2>1. inversed <=> swapped
    BY <1>1, <1>12 DEF Direction
  <2>2. inversed' <=> swapped'
    BY <1>6, <1>12, <2>1, Zenon
  <2>3. ASSUME ~swapped'
        PROVE  ~last /\ arm' = Way(i + 2) /\ \A k \in 1 .. i + 1 : ~Visible(k)
    <3>1. ~swapped /\ ~swap
      BY <1>6, <2>3, Zenon
    <3>2. arm' = Way(i + 2) /\ ~Visible(i + 1)
      BY <1>1, <1>12, <3>1, SwapWhenVisible DEF swap
    <3>3. arm = Way(i + 1) /\ \A k \in 1 .. i : ~Visible(k)
      BY <1>1, <1>12, <3>1 DEF Direction
    <3>4. \A k \in 1 .. i + 1 : ~Visible(k)
      <4>1. \A k \in 1 .. i + 1 : k \in 1 .. i \/ k = i + 1
        BY <1>3
      <4> QED BY <3>2, <3>3, <4>1, Zenon
    <3>5. ASSUME last PROVE FALSE
      <4>1. PICK k \in 1 .. Samples : Visible(k)
        BY Zenon DEF WellMounted
      <4>2. k \notin 1 .. i + 1
        BY <3>4, <4>1
      <4>3. CASE i = Samples - 1
        BY <1>3, <4>2, <4>3
      <4>4. CASE arm' = arm
        <5>1. d = pwm
          BY <1>2, <1>12 DEF Dir
        <5>2. Way(i + 1) = FirstEnd(pwm)
          BY <1>7, <1>12, <3>3, <3>5, <4>4, <5>1 DEF EndOf
        <5>3. k \in Nat /\ i + 1 \in Nat /\ k >= i + 1
          BY <1>3, <4>2
        <5> QED BY <1>1, <1>12, <4>1, <5>2, <5>3, NothingAfterEnd
      <4> QED BY <1>4, <3>5, <4>3, <4>4
    <3> QED BY <3>2, <3>4, <3>5
  <2>4. half' = 1 /\ half' # 2 /\ cal' \in {"stop", "sweep"}
    BY <1>1, <1>4, <1>12
  <2>5. cal' = "stop" => swapped' /\ inversed'
    <3>1. cal' = "stop" => last
      BY <1>4
    <3> QED BY <2>2, <2>3, <3>1
  <2>6. cal' = "sweep" /\ ~swapped' => (arm = Way(i + 1) /\ \A k \in 1 .. i : ~Visible(k))'
    <3> SUFFICES ASSUME cal' = "sweep", ~swapped'
                 PROVE  (arm = Way(i + 1) /\ \A k \in 1 .. i : ~Visible(k))'
      OBVIOUS
    <3>1. ~last /\ arm' = Way(i + 2) /\ \A k \in 1 .. i + 1 : ~Visible(k)
      BY <2>3
    <3>2. i' = i + 1 /\ i' + 1 = i + 2
      BY <1>3, <1>4, <3>1
    <3>3. Way(i + 1)' = Way(i + 2)
      BY <1>1, <3>2 DEF Way
    <3>4. \A k : Visible(k)' = Visible(k)
      BY <1>1, RigUnchanged
    <3>5. arm' = Way(i + 1)'
      BY <3>1, <3>3
    <3>6. \A k \in 1 .. i' : ~Visible(k)'
      BY <3>1, <3>2, <3>4
    <3> QED BY <3>5, <3>6
  <2>7. Direction'
    <3>1. (cal \in {"begin", "home", "turn"} /\ half = 1 => ~swapped /\ ~inversed)'
      BY <2>4
    <3>2. (cal = "sweep" /\ half = 1 => (inversed <=> swapped))'
      BY <2>2, Zenon
    <3>3. (cal = "stop" \/ (cal \in Looking /\ half = 2) => swapped /\ inversed)'
      BY <2>4, <2>5, Zenon
    <3>4. (cal \in {"sweep", "stop"} \/ (cal \in Looking /\ half = 2) => (run[1].increasing <=> pwm = 1))'
      BY <1>10, Zenon
    <3>5. (cal = "sweep" /\ half = 1 /\ ~swapped =>
              arm = Way(i + 1) /\ \A k \in 1 .. i : ~Visible(k))'
      BY <2>6
    <3> QED BY <3>1, <3>2, <3>3, <3>4, <3>5 DEF Direction
  <2> QED BY <1>8, <1>9, <2>7
<1> QED BY <1>3, <1>11, <1>12

\* The readings at a stop before and after it gave.
LEMMA GiveSeen ==
    ASSUME rig \in Rigs, NEW x \in Int, Angle(x) <= Angle(x + rig.give)
    PROVE  Angle(x + rig.give) = Angle(x) + rig.give
<1>1. rig.low \in Int /\ rig.give \in {0, 2} /\ C \in Nat /\ C > 4
  BY RigKnown
<1> DEFINE y == x + rig.give
<1>2. y \in Int /\ y - x = rig.give /\ y - x \in -(C - 1) .. C - 1 /\ rig.low + x \in Int /\ rig.low + y \in Int
  BY <1>1
<1> HIDE DEF y
<1>3. rig.give = IF TRUE THEN y - x ELSE x - y
  BY <1>2
<1>4. calc_pos((rig.low + y) % C, TRUE) - calc_pos((rig.low + x) % C, TRUE)
         \in {rig.give - C, rig.give, rig.give + C}
  BY <1>1, <1>2, <1>3, MovementSeen
<1>5. Angle(y) - Angle(x) \in {rig.give - C, rig.give, rig.give + C}
  BY <1>4 DEF Angle, calc_pos
<1>6. Angle(x) \in 0 .. C - 1 /\ Angle(y) \in 0 .. C - 1
  BY <1>2, Turns DEF Angle
<1>7. Angle(x) <= Angle(y)
  BY DEF y
<1>8. Angle(y) = Angle(x) + rig.give
  BY <1>1, <1>5, <1>6, <1>7
<1> QED BY <1>8 DEF y

\* An angle read between the stops is where the arm is, give or take turns.
LEMMA AngleIs ==
    ASSUME rig \in Rigs, NEW x \in Int, NEW a \in 0 .. C - 1, NEW y \in Int,
           a = Angle(y) + (x - y)
    PROVE  a = Angle(x)
<1>1. rig.low \in Int /\ C \in Nat /\ rig.low + x \in Int /\ rig.low + y \in Int
  BY RigKnown
<1>2. PICK k \in Int : Angle(x) = rig.low + x + C * k
  BY <1>1, Turns DEF Angle
<1>3. PICK m \in Int : Angle(y) = rig.low + y + C * m
  BY <1>1, Turns DEF Angle
<1>4. Angle(x) \in 0 .. C - 1
  BY <1>1, Turns DEF Angle
<1>5. C * (k - m) = C * k - C * m /\ k - m \in Int /\ C * k \in Int /\ C * m \in Int
  BY <1>1
<1>6. Angle(x) = a + C * (k - m)
  BY <1>1, <1>2, <1>3, <1>5
<1> QED BY <1>4, <1>5, <1>6, SameAngle

\* The averages of the two readings at each stop, and the distance between them.
LEMMA RangeBetweenStops ==
    ASSUME rig \in Rigs, StopsApartFromSeam,
           NEW lo, lo = (Angle(0) + Angle(-rig.give)) \div 2,
           NEW hi, hi = (Angle(rig.range) + Angle(rig.range + rig.give)) \div 2
    PROVE  lo = Angle(LowEnd) /\ (hi - lo + C) % C = Width
<1>1. /\ rig.low \in Int /\ rig.give \in {0, 2} /\ C \in Nat \ {0} /\ MaxRange + 2 < C
      /\ rig.range \in 2 .. MaxRange /\ MaxRange \in Nat
  BY RigKnown
<1>2. -rig.give \in Int /\ -rig.give + rig.give = 0 /\ rig.range \in Int /\ rig.range + rig.give \in Int
  BY <1>1
<1> DEFINE a == Angle(-rig.give)
           b == Angle(rig.range)
           g == rig.give \div 2
<1>3. a \in 0 .. C - 1 /\ b \in 0 .. C - 1 /\ Angle(0) \in 0 .. C - 1 /\ Angle(rig.range + rig.give) \in 0 .. C - 1
  <2>1. \A x \in Int : Angle(x) \in 0 .. C - 1
    <3>1. \A x \in Int : rig.low + x \in Int
      BY <1>1
    <3> QED BY <3>1, Turns DEF Angle
  <2> QED BY <1>2, <2>1
<1>4. Angle(0) = a + rig.give
  <2>1. Angle(-rig.give) <= Angle(-rig.give + rig.give)
    BY <1>2 DEF StopsApartFromSeam
  <2>2. Angle(-rig.give + rig.give) = Angle(-rig.give) + rig.give
    BY <1>2, <2>1, GiveSeen
  <2> QED BY <1>2, <2>2
<1>5. Angle(rig.range + rig.give) = b + rig.give
  BY <1>2, GiveSeen DEF StopsApartFromSeam
<1>6. LowEnd = -g /\ Width = rig.range + rig.give
  BY DEF LowEnd, Width
<1>7. a = Angle(-rig.give) /\ b = Angle(rig.range)
  OBVIOUS
<1>8. g \in Nat /\ rig.give = 2 * g
  BY <1>1
<1> HIDE DEF a, b, g
<1>9. lo = a + g /\ hi = b + g /\ lo \in 0 .. C - 1 /\ hi \in Int
  <2>1. Angle(0) + Angle(-rig.give) = 2 * (a + g) /\ a + g \in Int
    BY <1>3, <1>4, <1>7, <1>8
  <2>2. Angle(rig.range) + Angle(rig.range + rig.give) = 2 * (b + g) /\ b + g \in Int
    BY <1>3, <1>5, <1>7, <1>8
  <2>3. \A z \in Int : (2 * z) \div 2 = z
    OBVIOUS
  <2>4. lo = a + g /\ hi = b + g
    BY <2>1, <2>2, <2>3, Zenon
  <2>5. a + g \in 0 .. C - 1
    BY <1>1, <1>3, <1>4, <1>8
  <2> QED BY <2>2, <2>4, <2>5
<1>10. lo = Angle(-rig.give) + ((-g) - (-rig.give)) /\ -g \in Int
  BY <1>3, <1>7, <1>8, <1>9
<1>11. lo = Angle(-g)
  BY <1>2, <1>9, <1>10, AngleIs
<1>12. (hi - lo + C) % C = Width
  <2>1. PICK k \in Int : a = rig.low + (-rig.give) + C * k
    <3>1. rig.low + (-rig.give) \in Int
      BY <1>1
    <3> QED BY <1>7, <3>1, Turns DEF Angle
  <2>2. PICK m \in Int : b = rig.low + rig.range + C * m
    <3>1. rig.low + rig.range \in Int
      BY <1>1
    <3> QED BY <1>7, <3>1, Turns DEF Angle
  <2> DEFINE y == hi - lo + C
  <2>3. y \in Int
    BY <1>1, <1>9
  <2>4. PICK n \in Int : y % C = y + C * n
    BY <2>3, Turns
  <2>5. y % C \in 0 .. C - 1
    BY <2>3, Turns
  <2>6. /\ C * (m - k + 1 + n) = C * m - C * k + C + C * n /\ m - k + 1 + n \in Int
        /\ C * m \in Int /\ C * k \in Int /\ C * n \in Int
    BY <1>1
  <2>7. y = rig.range + rig.give + C * m - C * k + C
    BY <1>1, <1>3, <1>8, <1>9, <2>1, <2>2, <2>6
  <2> HIDE DEF y
  <2>8. y % C = Width + C * (m - k + 1 + n)
    BY <1>1, <1>6, <2>3, <2>4, <2>6, <2>7
  <2>9. Width \in 0 .. C - 1
    BY <1>1, <1>6
  <2>10. y % C = Width
    BY <2>5, <2>6, <2>8, <2>9, SameAngle
  <2> QED BY <2>10 DEF y
<1> QED BY <1>6, <1>11, <1>12

\* The end of a run; after the second one the range is known.
LEMMA StopKeeps ==
    ASSUME CalKnown, WellMounted, Timing, Shown, Direction, Stop
    PROVE  Timing' /\ Shown' /\ Direction' /\ Found'
<1>1. cal = "stop" /\ cal \in Looking /\ UNCHANGED <<rig, arm, pwm, i, swapped, run, inversed>>
  BY DEF Stop, Looking
<1>2. /\ half \in {1, 2} /\ pwm \in {-1, 1} /\ rig \in Rigs /\ swapped \in BOOLEAN
  BY <1>1, LookingFacts
<1>3. swapped = TRUE /\ inversed /\ (run[1].increasing <=> pwm = 1)
  <2>1. swapped /\ inversed /\ (run[1].increasing <=> pwm = 1)
    BY <1>1 DEF Direction
  <2> QED BY <1>2, <2>1, Zenon
<1>4. run[half].next = sample_calc(EndOf(half, Dir), TRUE) /\ run[half].start = sample_calc(EndOf(half, -Dir), TRUE)
  BY <1>1, <1>3 DEF Shown, Timing
<1>5. CASE half = 1
  <2>1. half' = 2 /\ cal' = "begin"
    BY <1>5 DEF Stop
  <2>2. run[1].start = sample_calc(FirstEnd(-pwm), TRUE) /\ run[1].next = sample_calc(FirstEnd(pwm), TRUE)
    <3>1. EndOf(half, Dir) = FirstEnd(pwm) /\ EndOf(half, -Dir) = FirstEnd(-pwm)
      BY <1>5 DEF EndOf, Dir
    <3> QED BY <1>4, <1>5, <3>1
  <2>3. sample_calc(FirstEnd(-pwm), TRUE)' = sample_calc(FirstEnd(-pwm), TRUE)
        /\ sample_calc(FirstEnd(pwm), TRUE)' = sample_calc(FirstEnd(pwm), TRUE)
    BY <1>1 DEF sample_calc, Angle, FirstEnd
  <2>4. Timing' /\ Found'
    BY <2>1 DEF Timing, Found
  <2>5. Shown'
    BY <1>1, <2>1, <2>2, <2>3 DEF Shown
  <2>6. swapped' /\ inversed' /\ (run[1].increasing <=> pwm = 1)'
    BY <1>1, <1>3
  <2>7. half' # 1 /\ cal' # "sweep"
    BY <2>1
  <2>8. Direction'
    BY <2>6, <2>7, Zenon DEF Direction
  <2> QED BY <2>4, <2>5, <2>8
<1>6. CASE half = 2
  <2> DEFINE back == Mean(run[1].start, run[2].next)
             front == Mean(run[1].next, run[2].start)
             lo == IF run[1].increasing THEN back ELSE front
             hi == IF run[1].increasing THEN front ELSE back
  <2>1. cal' = "done" /\ half' = half /\ offset' = lo /\ hibound' = (hi - lo + C) % C
    BY <1>6 DEF Stop
  <2>2. \A x : sample_calc(x, TRUE).pos = Angle(x)
    BY DEF sample_calc, calc_pos
  <2>3. /\ run[1].start.pos = Angle(FirstEnd(-pwm)) /\ run[1].next.pos = Angle(FirstEnd(pwm))
        /\ run[2].start.pos = Angle(SecondEnd(pwm)) /\ run[2].next.pos = Angle(SecondEnd(-pwm))
    <3>1. run[1].start = sample_calc(FirstEnd(-pwm), TRUE) /\ run[1].next = sample_calc(FirstEnd(pwm), TRUE)
      BY <1>1, <1>6 DEF Shown
    <3>2. EndOf(half, Dir) = SecondEnd(-pwm) /\ EndOf(half, -Dir) = SecondEnd(pwm)
      <4>1. Dir = -pwm /\ -Dir = pwm
        BY <1>2, <1>6 DEF Dir
      <4> QED BY <1>6, <4>1 DEF EndOf
    <3> QED BY <1>4, <1>6, <2>2, <3>1, <3>2
  <2>4. /\ back = (Angle(FirstEnd(-pwm)) + Angle(SecondEnd(-pwm))) \div 2
        /\ front = (Angle(FirstEnd(pwm)) + Angle(SecondEnd(pwm))) \div 2
    BY <2>3 DEF Mean
  <2> HIDE DEF back, front
  <2>5. /\ lo = (Angle(0) + Angle(-rig.give)) \div 2
        /\ hi = (Angle(rig.range) + Angle(rig.range + rig.give)) \div 2
    <3>1. CASE pwm = 1
      <4>1. lo = back /\ hi = front
        BY <1>3, <3>1
      <4>2. FirstEnd(-pwm) = 0 /\ SecondEnd(-pwm) = -rig.give
            /\ FirstEnd(pwm) = rig.range /\ SecondEnd(pwm) = rig.range + rig.give
        BY <3>1 DEF FirstEnd, SecondEnd
      <4> HIDE DEF lo, hi
      <4> QED BY <2>4, <4>1, <4>2
    <3>2. CASE ~(pwm = 1)
      <4>1. lo = front /\ hi = back
        BY <1>3, <3>2
      <4>2. -pwm = 1
        BY <1>2, <3>2
      <4>3. FirstEnd(pwm) = 0 /\ SecondEnd(pwm) = -rig.give
            /\ FirstEnd(-pwm) = rig.range /\ SecondEnd(-pwm) = rig.range + rig.give
        BY <3>2, <4>2 DEF FirstEnd, SecondEnd
      <4> HIDE DEF lo, hi
      <4> QED BY <2>4, <4>1, <4>3
    <3> QED BY <3>1, <3>2
  <2> HIDE DEF lo, hi
  <2>6. lo = Angle(LowEnd) /\ (hi - lo + C) % C = Width
    BY <1>2, <2>5, RangeBetweenStops DEF WellMounted
  <2>7. Angle(LowEnd)' = Angle(LowEnd) /\ Width' = Width
    BY <1>1 DEF Angle, LowEnd, Width
  <2>8. Width \in Int
    BY <1>2, RigKnown DEF Width
  <2>9. Found'
    BY <1>1, <1>3, <2>1, <2>6, <2>7, <2>8 DEF Found
  <2>10. Timing' /\ Shown' /\ Direction'
    BY <2>1 DEF Timing, Shown, Direction, Looking
  <2> QED BY <2>9, <2>10
<1> QED BY <1>2, <1>5, <1>6

LEMMA StartKeeps ==
    ASSUME NEW s, motorCalibrate(s)
    PROVE  Timing' /\ Shown' /\ Direction' /\ Found'
<1>1. cal' = "begin" /\ half' = 1 /\ ~swapped' /\ ~inversed'
  BY Zenon DEF motorCalibrate
<1>2. Timing' /\ Found' /\ Shown'
  BY <1>1 DEF Timing, Found, Shown
<1>3. half' # 2 /\ cal' \notin {"sweep", "stop"} /\ cal' # "sweep" /\ cal' # "stop"
  BY <1>1
<1>4. Direction'
  BY <1>1, <1>3, Zenon DEF Direction
<1> QED BY <1>2, <1>4

\* The upper bound only rises.
LEMMA OnlyUp ==
    ASSUME CalKnown, motorCPosition
    PROVE  hibound' \in Int /\ hibound \in Int /\ hibound' >= hibound
<1>1. hibound \in Int /\ hibound' \in Int
  BY KnownInUse DEF CalKnown, CalTypeOK
<1>2. \E p : hibound' = Stretched(p)
  BY DEF motorCPosition, Use, UseFailed
<1>3. PICK p : hibound' = Stretched(p)
  BY <1>2
<1>4. CASE p > hibound
  <2>1. hibound' = p
    BY <1>3, <1>4 DEF Stretched
  <2> QED BY <1>1, <1>4, <2>1
<1>5. CASE ~(p > hibound)
  BY <1>1, <1>3, <1>5 DEF Stretched
<1> QED BY <1>4, <1>5

LEMMA UseKeeps ==
    ASSUME CalKnown, WellMounted, Found, motorCPosition
    PROVE  Timing' /\ Shown' /\ Direction' /\ Found'
<1>1. cal \in {"done", "used"} /\ cal' = "used" /\ UNCHANGED <<rig, pwm, half, i, swapped, run, inversed, offset>>
  BY DEF motorCPosition, Use, UseFailed
<1>2. Timing' /\ Shown' /\ Direction'
  BY <1>1 DEF Timing, Shown, Direction, Looking
<1>3. inversed /\ offset = Angle(LowEnd) /\ hibound >= Width
  BY <1>1 DEF Found
<1>4. hibound' >= Width
  <2>1. Width \in Int
    BY RigKnown DEF Width, CalKnown, CalTypeOK
  <2> QED BY <1>3, <2>1, OnlyUp
<1>5. Angle(LowEnd)' = Angle(LowEnd) /\ Width' = Width
  BY <1>1 DEF Angle, LowEnd, Width
<1>6. Found'
  BY <1>1, <1>3, <1>4, <1>5 DEF Found
<1> QED BY <1>2, <1>6

\* Between the ends of the range a position is the distance from its lower end.
LEMMA PositionInRange ==
    ASSUME CalKnown, inversed, offset = Angle(LowEnd), NEW x \in Int, ~OutsideRange(x)
    PROVE  CPosition(x) = x - LowEnd /\ CPosition(x) <= Width
<1>1. /\ rig \in Rigs /\ rig.low \in Int /\ C \in Nat \ {0} /\ Width \in 0 .. C - 1 /\ LowEnd \in Int
      /\ x \in LowEnd .. LowEnd + Width
  <2>1. rig \in Rigs
    BY DEF CalKnown, CalTypeOK
  <2>2. /\ rig.low \in Int /\ C \in Nat \ {0} /\ rig.range \in 2 .. MaxRange /\ rig.give \in {0, 2}
        /\ MaxRange \in Nat /\ MaxRange + 2 < C
    BY <2>1, RigKnown
  <2>3. Width \in 0 .. C - 1 /\ LowEnd \in Int
    <3>1. rig.range + rig.give \in 0 .. C - 1
      BY <2>2
    <3>2. -(rig.give \div 2) \in Int
      BY <2>2
    <3> QED BY <3>1, <3>2, Zenon DEF Width, LowEnd
  <2> QED BY <2>1, <2>2, <2>3 DEF OutsideRange
<1>2. rig.low + x \in Int /\ rig.low + LowEnd \in Int
  BY <1>1
<1>3. PICK k \in Int : Angle(x) = rig.low + x + C * k
  BY <1>2, Turns DEF Angle
<1>4. PICK m \in Int : Angle(LowEnd) = rig.low + LowEnd + C * m
  BY <1>2, Turns DEF Angle
<1> DEFINE y == Angle(x) - Angle(LowEnd) + C
<1>5. CPosition(x) = y % C
  BY Zenon DEF CPosition, calc_pos
<1>6. Angle(x) \in Int /\ Angle(LowEnd) \in Int /\ y \in Int
  <2>1. Angle(x) \in Int /\ Angle(LowEnd) \in Int
    <3>1. \A z \in Int : z % C \in Int
      BY <1>1
    <3> QED BY <1>2, <3>1 DEF Angle
  <2> QED BY <1>1, <2>1
<1>7. PICK n \in Int : y % C = y + C * n
  BY <1>6, Turns
<1>8. y % C \in 0 .. C - 1
  BY <1>6, Turns
<1>9. /\ C * (k - m + 1 + n) = C * k - C * m + C + C * n /\ k - m + 1 + n \in Int
      /\ C * m \in Int /\ C * k \in Int /\ C * n \in Int
  BY <1>1
<1>10. y = x - LowEnd + C * k - C * m + C
  BY <1>1, <1>3, <1>4, <1>6, <1>9
<1> HIDE DEF y
<1>11. y % C = (x - LowEnd) + C * (k - m + 1 + n)
  BY <1>1, <1>7, <1>9, <1>10
<1>12. x - LowEnd \in 0 .. C - 1 /\ x - LowEnd <= Width
  BY <1>1
<1>13. y % C = x - LowEnd
  BY <1>8, <1>9, <1>11, <1>12, SameAngle
<1> QED BY <1>5, <1>12, <1>13

\* A step of start-up leaves motorCalibrate's variables alone, calls it, takes
\* a step of it, or reads a position.
LEMMA BootStep ==
    ASSUME [BootNext]_boardVars
    PROVE  \/ UNCHANGED calVars
           \/ motorCPosition
           \/ CalStep
           \/ \E s \in {-1, 1} : motorCalibrate(s)
<1>1. CASE UNCHANGED boardVars
  BY <1>1 DEF boardVars
<1>2. CASE addrLoad \/ motorInit \/ motorStart \/ StartDriver \/ SetupLed \/ Serve
  BY <1>2 DEF addrLoad, motorInit, motorStart, StartDriver, SetupLed, Serve
<1>3. CASE StartRender \/ ThreadRuns
  BY <1>3, Zenon DEF StartRender, ThreadRuns
<1>4. CASE Calibrating
  BY <1>4 DEF Calibrating
<1>5. CASE CallCalibrate
  <2>1. motorCalibrate(IF addr = "SPINE" THEN -1 ELSE 1)
    BY <1>5 DEF CallCalibrate
  <2>2. (IF addr = "SPINE" THEN -1 ELSE 1) \in {-1, 1}
    OBVIOUS
  <2> QED BY <2>1, <2>2, Zenon
<1>6. CASE Halted
  BY <1>6 DEF Halted, boardVars
<1> QED BY <1>1, <1>2, <1>3, <1>4, <1>5, <1>6 DEF BootNext

LEMMA CalKnownKept ==
    ASSUME CalKnown, [BootNext]_boardVars
    PROVE  CalKnown'
<1>1. ASSUME NEW s \in {-1, 1}, motorCalibrate(s) PROVE CalKnown'
  BY <1>1, KnownWhenCalled
<1>2. CASE CalStep
  BY <1>2, KnownAfterMove, KnownAfterStop DEF CalStep
<1> QED BY <1>1, <1>2, BootStep, KnownUnchanged, KnownInUse

\* The magnet stays where it is, and the sign of the drive with it from the call on.
LEMMA MountKept ==
    ASSUME [BootNext]_boardVars, cal # "off"
    PROVE  WellMounted' <=> WellMounted
<1>1. UNCHANGED <<rig, pwm>>
  BY BootStep DEF calVars, motorCPosition, Use, UseFailed, CalStep, Begin, Home, Turn, Sweep, Stop, motorCalibrate
<1> QED BY <1>1, RigUnchanged

LEMMA CalInvKept ==
    ASSUME CalInv, [BootNext]_boardVars
    PROVE  CalInv'
<1>1. CalKnown /\ CalKnown'
  BY CalKnownKept DEF CalInv
<1> SUFFICES ASSUME WellMounted' PROVE (Timing /\ Shown /\ Direction /\ Found)'
  BY <1>1 DEF CalInv
<1>2. CASE cal = "off"
  <2>1. UNCHANGED calVars \/ \E s \in {-1, 1} : motorCalibrate(s)
    BY <1>2, BootStep DEF motorCPosition, Use, UseFailed, CalStep, Begin, Home, Turn, Sweep, Stop
  <2>2. ASSUME UNCHANGED calVars PROVE (Timing /\ Shown /\ Direction /\ Found)'
    BY <1>2, <2>2 DEF calVars, Timing, Shown, Direction, Found, Looking
  <2> QED BY <2>1, <2>2, StartKeeps
<1>3. CASE cal # "off"
  <2>1. WellMounted /\ Timing /\ Shown /\ Direction /\ Found
    BY <1>3, MountKept DEF CalInv
  <2>2. CASE UNCHANGED calVars
    <3>1. /\ UNCHANGED <<rig, arm, pwm, cal, half, i, swapped, run, inversed, offset, hibound>>
      BY <2>2 DEF calVars
    <3>2. Timing'
      BY <2>1, <3>1 DEF Timing, ToGo, EndOf, FirstEnd, SecondEnd, Dir
    <3>3. Shown'
      BY <2>1, <3>1 DEF Shown, EndOf, FirstEnd, SecondEnd, Dir, sample_calc, Angle
    <3>4. Direction'
      BY <2>1, <3>1, Zenon DEF Direction, Way, Visible, Angle
    <3>5. Found'
      BY <2>1, <3>1 DEF Found, Angle, LowEnd, Width
    <3> QED BY <3>2, <3>3, <3>4, <3>5
  <2>3. CASE motorCPosition
    BY <1>1, <2>1, <2>3, UseKeeps
  <2>4. CASE Begin
    BY <1>1, <2>1, <2>4, BeginKeeps DEF Begin, Found
  <2>5. CASE Home
    BY <1>1, <2>1, <2>5, HomeKeeps DEF Home, Found
  <2>6. CASE Turn
    BY <1>1, <2>1, <2>6, TurnKeeps DEF Turn, Found
  <2>7. CASE Sweep
    BY <1>1, <2>1, <2>7, SweepKeeps DEF Sweep, Found
  <2>8. CASE Stop
    BY <1>1, <2>1, <2>8, StopKeeps
  <2>9. ASSUME NEW s \in {-1, 1}, motorCalibrate(s) PROVE FALSE
    BY <1>3, <2>9 DEF motorCalibrate
  <2> QED BY <2>2, <2>3, <2>4, <2>5, <2>6, <2>7, <2>8, <2>9, BootStep DEF CalStep
<1> QED BY <1>2, <1>3

LEMMA CalInvAlways == BootSpec => []CalInv
<1>1. BootInit => CalInv
  <2> SUFFICES ASSUME BootInit PROVE CalInv
    OBVIOUS
  <2>1. CalKnown /\ cal = "off"
    BY KnownAtStart DEF BootInit, CalInit
  <2>2. Timing /\ Shown /\ Direction /\ Found
    BY <2>1 DEF Timing, Shown, Direction, Found, Looking
  <2> QED BY <2>1, <2>2 DEF CalInv
<1> QED BY <1>1, CalInvKept, PTL DEF BootSpec

\* The PWM period and the pins: the values start-up gives them.
LEMMA BootTypesKept ==
    ASSUME BootTypeOK, CalKnown', [BootNext]_boardVars
    PROVE  BootTypeOK'
<1>1. CalTypeOK'
  BY DEF CalKnown
<1>2. (pwmcfg \in {306, 207} /\ pwmoffset \in 0 .. 306)'
  <2>1. CASE motorInit
    BY <2>1 DEF motorInit, pwmoffsetOf
  <2>2. CASE UNCHANGED <<pwmcfg, pwmoffset>>
    BY <2>2 DEF BootTypeOK
  <2> QED BY <2>1, <2>2 DEF BootNext, boardVars, bootVars, addrLoad, motorStart, CallCalibrate,
          Calibrating, StartRender, StartDriver, SetupLed, Serve, ThreadRuns, Halted
<1>3. (started \subseteq {"motor", "pwm", "adc", "render", "pool", "motion", "rs485", "comm"})'
  BY DEF BootTypeOK, BootNext, boardVars, bootVars, addrLoad, motorInit, motorStart, CallCalibrate,
         Calibrating, StartRender, StartDriver, SetupLed, Serve, ThreadRuns, Halted
<1> QED BY <1>1, <1>2, <1>3 DEF BootTypeOK

\* The values of start-up keep their types: angles, positions and the upper
\* bound stay on the circle, the arm between its stops or as far past them as
\* it can be pushed.
THEOREM BootTypes == BootSpec => []BootTypeOK
<1>1. BootInit => BootTypeOK
  BY KnownAtStart DEF BootInit, BootTypeOK, CalKnown
<1>2. BootTypeOK /\ CalInv' /\ [BootNext]_boardVars => BootTypeOK'
  BY BootTypesKept DEF CalInv
<1> QED BY <1>1, <1>2, CalInvAlways, PTL DEF BootSpec

\* motorCalibrate finds the range of a well-mounted arm, whichever way it is
\* driven, wherever the angle wraps and however fast the arm turns.
THEOREM FindsTheRange == BootSpec => []CalibratedRange
<1>1. CalInv => CalibratedRange
  BY DEF CalInv, Found, CalibratedRange
<1> QED BY <1>1, CalInvAlways, PTL

LEMMA StretchStep ==
    ASSUME CalInv, [BootNext]_boardVars, cal \in {"done", "used"}, WellMounted, hibound' # hibound
    PROVE  hibound' > hibound /\ (OutsideRange(arm') \/ UseFailed)
<1>1. CalKnown /\ inversed /\ offset = Angle(LowEnd) /\ hibound >= Width
  BY DEF CalInv, Found
<1>2. motorCPosition
  BY BootStep DEF calVars, CalStep, Begin, Home, Turn, Sweep, Stop, motorCalibrate
<1>3. hibound' > hibound
  BY <1>1, <1>2, OnlyUp
<1>4. ASSUME Use, ~OutsideRange(arm') PROVE FALSE
  <2>1. arm' \in Reach /\ hibound' = Stretched(CPosition(arm'))
    BY <1>4 DEF Use
  <2>2. arm' \in Int /\ Width \in Int /\ LowEnd \in Int
    <3>1. rig \in Rigs
      BY <1>1 DEF CalKnown, CalTypeOK
    <3>2. rig.range \in Int /\ rig.give \in {0, 2} /\ Over \in Int
      BY <3>1, RigKnown, CircleAssumption
    <3>3. arm' \in Int
      BY <2>1, <3>2 DEF Reach
    <3>4. rig.range + rig.give \in Int /\ -(rig.give \div 2) \in Int
      BY <3>2
    <3> QED BY <3>3, <3>4, Zenon DEF Width, LowEnd
  <2>3. CPosition(arm') = arm' - LowEnd /\ CPosition(arm') <= Width
    BY <1>1, <1>4, <2>2, PositionInRange
  <2> DEFINE p == CPosition(arm')
  <2> HIDE DEF p
  <2>4. p = arm' - LowEnd /\ p <= Width /\ hibound' = Stretched(p) /\ hibound \in Int
    BY <1>1, <1>2, <2>1, <2>3, OnlyUp DEF p
  <2>5. p <= hibound /\ p \in Int
    <3>1. p \in Int
      BY <2>2, <2>4
    <3>2. hibound >= Width /\ hibound \in Int /\ p <= Width /\ Width \in Int
      BY <1>1, <2>2, <2>4, Zenon
    <3> QED BY <3>1, <3>2
  <2>6. hibound' = hibound
    BY <2>4, <2>5 DEF Stretched
  <2> QED BY <2>6
<1> QED BY <1>2, <1>3, <1>4 DEF motorCPosition

\* After calibration a well-mounted arm's upper bound rises only when the arm
\* is pushed out of the range or a conversion fails.
THEOREM StretchesOnlyByOvertravel == BootSpec => StretchOnlyByOvertravel
<1>1. CalInv /\ [BootNext]_boardVars =>
         [(cal \in {"done", "used"} /\ WellMounted /\ hibound' # hibound) =>
            /\ hibound' > hibound
            /\ OutsideRange(arm') \/ UseFailed]_calVars
  BY StretchStep
<1> QED BY <1>1, CalInvAlways, PTL DEF BootSpec, StretchOnlyByOvertravel
=============================================================================
