-------------------------- MODULE MCSegmentChange --------------------------
(* Instances of SegmentChange for TLC.                                     *)
EXTENDS SegmentChange, TLC

CONSTANTS eth, old, new, a, b, ula, pd

Links == {eth, old, new}
Vlans == {old, new}
Addrs == {a, b, ula, pd}

Segs ==
    {[iface |-> old, a4 |-> a, v6 |-> None],
     [iface |-> new, a4 |-> b, v6 |-> Automatic],
     [iface |-> eth, a4 |-> a, v6 |-> Automatic]}
=============================================================================
