------------------------------ MODULE MCRadio -------------------------------
(* An instance of Radio for TLC: two networks, the first of which answers at *)
(* one power only, and a ladder of two.                                      *)
EXTENDS Radio

home == [ssid |-> "home", password |-> "h"]
work == [ssid |-> "work", password |-> "w"]

MCNetworks == {home, work}
MCLadder   == <<80, 60>>
MCAirs     == {{}, {<<home, 80>>}, {<<home, 60>>, <<work, 80>>, <<work, 60>>}}
=============================================================================
