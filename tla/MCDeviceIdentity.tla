--------------------------- MODULE MCDeviceIdentity ---------------------------
(* Instances of DeviceIdentity for TLC.                                       *)
EXTENDS DeviceIdentity, SequencesExt

CONSTANTS p1, p2, t1, t2

\* Two threads of one program, or of two.
MCLayouts == {(t1 :> p1) @@ (t2 :> p1), (t1 :> p1) @@ (t2 :> p2)}

Real(k) == [virtual |-> FALSE, nr |-> k]
Virtual == [virtual |-> TRUE, nr |-> 9]
Card(mac, ip) == [up |-> TRUE, mac |-> mac, ip |-> ip]

\* A machine with a virtual switch and a card with and without an address.
MCNetworks ==
    { <<Card(Virtual, "routable"), Card(Real(1), ip)>> :
          ip \in {"routable", "hyperv", "linklocal", None} }

\* All machines with up to two interfaces: a card with an IPv4 address is never
\* passed over for one without, and some card is found if there is one.
AllInterfaces ==
    [up : BOOLEAN, mac : {None, Virtual, Real(1)}, ip : Ip \cup {None}]

ASSUME PreferenceAssumption ==
    \A n \in BoundedSeq(AllInterfaces, 2) :
        LET addressed == {k \in DOMAIN n : n[k].up /\ n[k].mac # None /\ Addressed(n[k])}
            m == PreferredMac(n)
        IN  /\ addressed # {} => \E k \in addressed : n[k].mac = m
            /\ m = NodeMac <=> \A k \in DOMAIN n : ~n[k].up \/ n[k].mac = None
===============================================================================
