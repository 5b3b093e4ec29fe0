------------------------------ MODULE MCEventLoop ------------------------------
(* Instances of EventLoop for TLC.                                         *)
EXTENDS EventLoop

CONSTANTS a1, a2

TwoFds == {4, 5}
TwoAddrs == {a1, a2}
OneFd == {4}
=============================================================================
