----------------------------- MODULE MCDevices -----------------------------
(***************************************************************************)
(* The devices under the two programs, side by side in one specification:  *)
(* the motor output and the serial driver of the actuator, and the         *)
(* pressure sensor with its USB port.  Their variables are disjoint, so    *)
(* instead of interleaving them a behaviour is one of one device.  A       *)
(* device that takes no steps rests in its initial state, in which no fair *)
(* action is enabled, so the fairness of one says nothing of another.      *)
(***************************************************************************)
EXTENDS Motor, Rs485, UsbSerial

CONSTANT Devices    \* the devices to check

VARIABLE device     \* the device whose behaviour this is

DevicesInit == device \in Devices /\ MotorInit /\ Rs485Init /\ UsbInit

DevicesNext ==
    /\ UNCHANGED device
    /\ \/ device = "motor" /\ MotorNext /\ UNCHANGED <<rs485Vars, allVars>>
       \/ device = "line" /\ Rs485Next /\ UNCHANGED <<motorVars, allVars>>
       \/ device = "usb" /\ UsbNext /\ UNCHANGED <<motorVars, rs485Vars>>

DevicesSpec ==
    /\ DevicesInit /\ [][DevicesNext]_<<device, motorVars, rs485Vars, allVars>>
    /\ Rs485Fairness /\ Fairness

DevicesTypeOK == MotorTypeOK /\ Rs485TypeOK /\ TypeOK

MCAllDevices == {"motor", "line", "usb"}
MCLine == {"line"}
MCUsb == {"usb"}
=============================================================================
