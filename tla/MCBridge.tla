------------------------------ MODULE MCBridge ------------------------------
(* Instances of Bridge for TLC. *)
EXTENDS Bridge

MCLinks == {"usb", "net"}
MCUsb   == {"usb"}
MCNet   == {"net"}
MCNone  == {}

MCNine  == [l \in Links |-> 9]
MCSix   == [l \in Links |-> 6]
MCFour  == [l \in Links |-> 4]
MCThree == [l \in Links |-> 3]
MCOne   == [l \in Links |-> 1]
MCZero  == [l \in Links |-> 0]
\* Clients that come and go on the network, beside one on the serial port.
MCSomeCalls    == [usb |-> 1, net |-> 4]
MCSomeSessions == [usb |-> 1, net |-> 2]
=============================================================================
