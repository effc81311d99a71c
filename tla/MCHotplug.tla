------------------------------- MODULE MCHotplug -------------------------------
\* Two decks, with their serial numbers, and two slots.
EXTENDS Hotplug

CONSTANTS A1, B1, A, B

MCDevices == {A1, B1}
MCSerials == {A, B}
MCSerialOf == [d \in Devices |-> IF d = A1 THEN A ELSE B]
MCOneDevice == {A1}
MCOneSerial == {A}
================================================================================
