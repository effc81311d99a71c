------------------------------- MODULE MCWatcher -------------------------------
\* Instances of the watcher: decks A and B, some of which are plugged in a
\* second time (A2, B2), as a new device with the same serial number.
EXTENDS UsbWatcher

CONSTANTS A1, A2, B1, B2, A, B

MCDevices == {A1, A2, B1, B2}
MCLiveDevices == {A1, A2, B1}
MCTwinDevices == {A1, A2}

MCSerials == {A, B}
MCTwinSerials == {A}

MCSerialOf == [d \in Devices |-> IF d \in {A1, A2} THEN A ELSE B]

================================================================================
