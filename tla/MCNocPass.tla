------------------------------ MODULE MCNocPass ------------------------------
(* Values of the constants for the run of NocPass.                         *)
EXTENDS NocPass, TLC

CONSTANTS adm1, adm2, fiberx, support, devUser, kept, jo,
          m1, own, typed, earlier, rotator, req, none

AllNetworks == [type |-> "all_networks", value |-> "all"]
DeviceTwo == [type |-> "device", value |-> 2]
TwoTargets == {AllNetworks, DeviceTwo}

(* Host 1 is a Cisco, host 2 a Mikrotik, of one province.                   *)
TwoHosts ==
    [h \in {1, 2} |-> [network_type |-> "wifi", province |-> "Baghdad",
                       vendor |-> IF h = 1 THEN "cisco_ios" ELSE "mikrotik", model |-> "m"]]

(* Saved users for the Mikrotik routers, some by the name of SUPPORT or of  *)
(* a setup user.                                                           *)
OnMikrotik(u) ==
    [user |-> u, lists |-> [t \in Group \cup {"device"} |->
                                IF t = "vendor" THEN {"mikrotik"} ELSE {}]]
UsersOnMikrotik == {OnMikrotik(u) : u \in {jo, support} \cup Setup}

Enabled(target) == [DefaultPolicy EXCEPT !.enabled = TRUE, !.target = target]
Manual(target) == [Enabled(target) EXCEPT !.mode = "manual", !.manual = m1]

(* A policy for all networks beside one for a device, random or manual.     *)
TwoPolicies == {<<[Enabled(AllNetworks) EXCEPT !.active = earlier], Manual(DeviceTwo), None>>}

SetupSymmetry == Permutations(Setup)
=============================================================================
