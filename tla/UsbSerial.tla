------------------------------ MODULE UsbSerial ------------------------------
(***************************************************************************)
(* The virtual serial port of the pressure sensor (usb_serial.c and        *)
(* usbcfg.c) under the state machine and the thread of Sampling: a host    *)
(* enumerates the device from its descriptors and configures it, also in   *)
(* the middle of a sample, and reads what the sampling thread writes.      *)
(*                                                                         *)
(* A request of the host is a step.  Descriptors are the parts the host    *)
(* goes by; names and classes are left out.                                *)
(***************************************************************************)
EXTENDS Sampling, Sequences

VARIABLES
    addressed,  \* the host has given the device an address
    known,      \* the descriptors the host has read since the reset
    endpoints,  \* endpoints the device has initialised, with their type and packet size
    queue,      \* the writes in the output queue, "header" or "data"
    heard       \* history: what the host read last since it configured the device

usbSerialVars == <<addressed, known, endpoints, queue, heard>>
allVars == <<vars, usbSerialVars>>

(***************************************************************************)
(* The descriptors                                                         *)
(***************************************************************************)

vcom_device_descriptor == [maxPacketSize |-> 64, strings |-> {1, 2, 3}]

Endpoint(number, dir, attributes, size) ==
    [ep |-> <<number, dir>>, type |-> attributes, size |-> size]

\* Of the configuration, its interfaces and their functions the endpoints.
vcom_configuration_descriptor ==
    {Endpoint(2, "in", "interrupt", 8),
     Endpoint(1, "out", "bulk", 64), Endpoint(1, "in", "bulk", 64)}

\* The language, the vendor, the product and the serial number.
vcom_strings == <<"U.S. English", "STMicroelectronics", "ChibiOS/RT Virtual COM Port", "version">>

\* NULL, which stalls the request.
NoDescriptor == <<>>

get_descriptor(dtype, dindex) ==
    CASE dtype = "device" -> <<vcom_device_descriptor>>
      [] dtype = "configuration" -> <<vcom_configuration_descriptor>>
      [] dtype = "string" /\ dindex < 4 -> <<vcom_strings[dindex + 1]>>
      [] OTHER -> NoDescriptor

(***************************************************************************)
(* The endpoints                                                           *)
(***************************************************************************)

\* USB_EP_MODE_TYPE_INTR, both.
ep1config == {Endpoint(1, "in", "interrupt", 64), Endpoint(1, "out", "interrupt", 64)}
ep2config == {Endpoint(2, "in", "interrupt", 16)}

\* USB_EVENT_CONFIGURED; the other events do nothing.
usb_event == ep1config \cup ep2config

(***************************************************************************)
(* The host                                                                *)
(***************************************************************************)

\* The driver forgets address, configuration and endpoints.
Reset ==
    /\ addressed' = FALSE /\ known' = {} /\ endpoints' = {}
    /\ IF usb THEN Disconnected ELSE UNCHANGED vars
    /\ UNCHANGED <<queue, heard>>

SetAddress ==
    /\ ~addressed /\ addressed' = TRUE
    /\ UNCHANGED <<vars, known, endpoints, queue, heard>>

\* Strings are for people.
GetDescriptor ==
    /\ \E dtype \in {"device", "configuration"} \ known :
         get_descriptor(dtype, 0) # NoDescriptor /\ known' = known \cup {dtype}
    /\ UNCHANGED <<vars, addressed, endpoints, queue, heard>>

\* A host knows which configuration to set from the descriptors.
SetConfiguration ==
    /\ addressed /\ known = {"device", "configuration"}
    /\ Configured
    /\ endpoints' = usb_event
    /\ queue' = <<>> /\ heard' = "nothing"
    /\ UNCHANGED <<addressed, known>>

Listen ==
    /\ HostReads
    /\ heard' = Head(queue) /\ queue' = Tail(queue)
    /\ UNCHANGED <<addressed, known, endpoints>>

Host == Reset \/ SetAddress \/ GetDescriptor \/ SetConfiguration \/ Listen

(***************************************************************************)
(* The device                                                              *)
(***************************************************************************)

Device ==
    /\ \/ Write /\ queue' = Append(queue, spc)
       \/ (WaitTrigger \/ sample_grid \/ MainThread \/ gpt_callback) /\ UNCHANGED queue
    /\ UNCHANGED <<addressed, known, endpoints, heard>>

\* After cm_usb_serial_init and cm_sensor_init.
UsbInit ==
    /\ Init
    /\ addressed = FALSE /\ known = {} /\ endpoints = {}
    /\ queue = <<>> /\ heard = "nothing"

UsbNext == Host \/ Device

UsbSpec == UsbInit /\ [][UsbNext]_allVars /\ Fairness

(***************************************************************************)
(* Properties                                                              *)
(***************************************************************************)

\* "Enables the endpoints specified into the configuration" (usbcfg.c:275): once
\* configured, each endpoint the host has read of in the descriptor is enabled,
\* with the attributes described, "Bulk" for endpoint 1 (usbcfg.c:120,125), and
\* for packets as large as described.
EndpointsAsDescribed ==
    usb => \A d \in vcom_configuration_descriptor :
               \E c \in endpoints : c.ep = d.ep /\ c.type = d.type /\ c.size >= d.size

\* From one configuration to the next the host reads headers and data in turn:
\* a sample cut by a reset, a full queue or the end of the thread can only be
\* the first or the last thing it reads (sensor.c:176-179, usbcfg.c:282).
FramesAlternate ==
    [][(Len(queue') < Len(queue) /\ heard' # "nothing") => heard' # heard]_allVars
=============================================================================
