------------------------------ MODULE MCNocData ------------------------------
(* Values of the constants for the run of NocData.                          *)
EXTENDS NocData, TLC

CONSTANTS router, cisco, mikrotik, jo, mo, wide, narrow, low, high, backwards, weekly, req, a, b, none

(* One router with two addresses, the second in two ranges.                 *)
OneRouter == [h \in Host |-> router]
IsCisco == [d \in Device |-> cisco]
LetsJoIn == [d \in Device |-> {jo}]

(* In 10.130.0.0/16 a single number is a third octet.                       *)
Net(lo, hi) == [ip |-> <<10, 130, 0, 0>>, ones |-> 16, lo |-> lo, hi |-> hi]
Addresses == [h \in Host |-> <<10, 130, 4 + h, 0>>]
Targets ==
    wide :> Net(<<5>>, <<6>>) @@ narrow :> Net(<<10, 130, 5, 9>>, <<10, 130, 6, 7>>) @@
    low :> Net(<<5>>, <<5>>) @@ high :> Net(<<6>>, <<10, 130, 6, 255>>) @@
    backwards :> Net(<<6>>, <<5>>)

(* The hosts a discovery walks over are those that an exclusion of the same *)
(* subnet and range matches, under masks that end within and at an octet,   *)
(* unless the range ends at the last address of all.                        *)
ASSUME WalkIsMatch ==
    LET near == {<<10, 130, o, n>> : o \in {3, 4, 5, 255}, n \in {0, 7, 255}}
        ends == near \cup {<<4>>, <<5>>}
        targets == [ip : {<<10, 130, 4, 1>>}, ones : {8, 15, 16, 22, 23, 24}, lo : ends, hi : ends]
        last == [ip : {<<255, 255, 4, 1>>}, ones : {16}, lo : {<<4>>}, hi : {LastAddress}]
    IN  \A t \in targets \cup last : parseRangeBounds(t) =>
            \A ip \in near :
                WalkIPv4Range(t, ip) <=> HostMatchesIPv4Spec(t, ip) \/ End(t) = LastAddress
JoAndMo == {<<cisco, jo>>, <<mikrotik, mo>>}

Collected(g, h) == [range |-> g, host |-> h, login |-> [family |-> cisco, login |-> jo],
                    status |-> "ok", identity |-> router]
FailedAt(g, h) == [range |-> g, host |-> h, login |-> None, status |-> "fail",
                   identity |-> None]
(* Nothing yet, or one address collected and the other not reached so far.  *)
Tables == {[i \in Id |-> None],
           [i \in Id |-> CASE i = 1 -> Collected(wide, 1) [] i = 2 -> FailedAt(wide, 2)
                           [] OTHER -> None]}

SlotSymmetry == Permutations(Slot)
=============================================================================
