------------------------------ MODULE MCParts ------------------------------
(***************************************************************************)
(* The parts of the actuator that need no other part's steps, side by side *)
(* in one specification: how a board comes up, how the motion driver is    *)
(* started and stopped, how the line is cut into messages, the checksum,   *)
(* the two renderers and SMOOTH.  Their variables are disjoint, so instead *)
(* of interleaving them a behaviour is one of one part.                    *)
(***************************************************************************)
EXTENDS Boot, MotionLifecycle, SerialLink, Crc16, PulseStep, Pid, Smooth

CONSTANT Parts      \* the parts to check

VARIABLE part       \* the part whose behaviour this is

Others(p) ==
    /\ p # "boot" => UNCHANGED boardVars
    /\ p # "motion" => UNCHANGED allLifeVars
    /\ p # "link" => UNCHANGED linkVars
    /\ p # "checksum" => UNCHANGED crcVars
    /\ p # "pulse" => UNCHANGED pulseVars
    /\ p # "pid" => UNCHANGED pidVars
    /\ p # "smooth" => UNCHANGED smoothVars

\* The parts that do not take steps have one initial state.
PartsInit ==
    /\ part \in Parts
    /\ part # "boot" =>
           /\ strap = <<"GND", "GND">>
           /\ rig = [low |-> 0, range |-> 2, give |-> 0, speed |-> 2]
    /\ part # "pid" =>
           upper = MaxPos /\ target = 0 /\ coeff = <<Fin(1), Fin(0), Fin(-1)>>
    /\ part # "smooth" =>
           instructs = [time |-> 0, setpoint |-> 0] /\ curr_pos = 0 /\ bound = 4
    /\ BootInit /\ LifeInit /\ LinkInit /\ CrcInit /\ PulseInit /\ PidInit /\ SmoothInit

PartsNext ==
    \/ part = "boot" /\ BootNext /\ Others("boot") /\ UNCHANGED part
    \/ part = "motion" /\ LifeNext /\ Others("motion") /\ UNCHANGED part
    \/ part = "link" /\ LinkNext /\ Others("link") /\ UNCHANGED part
    \/ part = "checksum" /\ CrcNext /\ Others("checksum") /\ UNCHANGED part
    \/ part = "pulse" /\ PulseNext /\ Others("pulse") /\ UNCHANGED part
    \/ part = "pid" /\ PidNext /\ Others("pid") /\ UNCHANGED part
    \/ part = "smooth" /\ SmoothNext /\ Others("smooth") /\ UNCHANGED part

PartsSpec == PartsInit /\ [][PartsNext]_<<part, boardVars, allLifeVars, linkVars, crcVars, pulseVars, pidVars, smoothVars>>

PartsTypeOK ==
    BootTypeOK /\ LifeTypeOK /\ PulseTypeOK /\ PidTypeOK /\ SmoothTypeOK

MCAllParts == {"boot", "motion", "link", "checksum", "pulse", "pid", "smooth"}
MCSmooth == {"smooth"}

MCSpeeds == {2, 4}
MCSample == {0, 255}
MCSetpoint == {0, 1}
MCRanges == {4, 5}

\* A slot with a duration and one without.
MCPayload ==
    {[delay |-> 1, loop |-> 1, slots |-> << [duration |-> 2, setpoint |-> 1],
                                            [duration |-> 0, setpoint |-> 0] >>,
      given |-> {1, 2}]}

\* Ordinary gains, gains whose products overflow and cancel, and no numbers.
MCGains ==
    {<<Fin(2), Fin(0), Fin(1)>>, <<Fin(Cap), Fin(0), Fin(-Cap)>>,
     <<Inf(1), NaN, Fin(0)>>, <<Fin(0), Fin(0), Inf(-1)>>,
     <<Fin(1), Fin(0), Fin(-1)>>}
=============================================================================
