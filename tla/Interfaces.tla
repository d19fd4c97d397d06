----------------------------- MODULE Interfaces ------------------------------
(* Which devices macer knows and through which endpoints it talks to them:   *)
(* the tables of src/trezor/usb.hpp, the test of usb::run, and               *)
(* trezor::usb::select.  A device is its vendor, its product and its         *)
(* interfaces; an interface is the sequence of its alternate settings.       *)
EXTENDS Naturals, Sequences, SequencesExt

VendorIdOg == 21564                \* 0x543c
VendorId   == 4617                 \* 0x1209
DevicesOg  == <<1, 2>>
KnownDevices == <<21441>>          \* 0x53c1

Hid        == 3                    \* LIBUSB_CLASS_HID
VendorSpec == 255                  \* LIBUSB_CLASS_VENDOR_SPEC

(* std::binary_search finds every entry only in a table in ascending order.  *)
Ascending(table) == \A i \in 2..Len(table) : table[i - 1] < table[i]

TablesAscending == Ascending(DevicesOg) /\ Ascending(KnownDevices)

OgFirmware(device) == device.vendor = VendorIdOg

Known(device) ==
    \/ device.vendor = VendorId /\ device.product \in ToSet(KnownDevices)
    \/ OgFirmware(device) /\ device.product \in ToSet(DevicesOg)

FirmwareClass(og) == IF og THEN Hid ELSE VendorSpec

-----------------------------------------------------------------------------
IsIn(endpoint) == endpoint.address >= 128

(* bmAttributes & 3: every endpoint that is not a control endpoint.          *)
Passes(endpoint) == endpoint.attributes % 4 # 0

(* Mutant of EndpointOf: the directions are swapped.                         *)
EndpointOfOther(endpoints, in) ==
    LET usable == {i \in DOMAIN endpoints : Passes(endpoints[i]) /\ IsIn(endpoints[i]) # in}
    IN  IF usable = {} THEN 0 ELSE endpoints[Max(usable)].address

(* The endpoint of a direction that comes last, or 0.                        *)
EndpointOf(endpoints, in) ==
    LET usable == {i \in DOMAIN endpoints : Passes(endpoints[i]) /\ IsIn(endpoints[i]) = in}
    IN  IF usable = {} THEN 0 ELSE endpoints[Max(usable)].address

(* No interface has this number.                                             *)
NoInterface == [number |-> 256, in |-> 0, out |-> 0]

(* The settings of an interface that have a class.                           *)
OfClass(settings, class) == {j \in DOMAIN settings : settings[j].class = class}

(* The first interface with a setting of the firmware's class, and its first *)
(* such setting, or an error.                                                *)
Select(interfaces, og) ==
    LET class      == FirmwareClass(og)
        candidates == {i \in DOMAIN interfaces : OfClass(interfaces[i], class) # {}}
        settings   == interfaces[Min(candidates)]
        setting    == settings[Min(OfClass(settings, class))]
    IN  IF candidates = {} THEN NoInterface
        ELSE [number |-> setting.number,
              in     |-> EndpointOf(setting.endpoints, TRUE),
              out    |-> EndpointOf(setting.endpoints, FALSE)]

=============================================================================
