---------------------------- MODULE MC_KnownTypes ----------------------------
(* Instances of KnownTypes for TLC: two threads that may miss one type at    *)
(* the same time, and another type to show that entries do not mix.          *)
EXTENDS KnownTypes

CONSTANTS t1, t2, ty1, ty2, d1, d2

TwoThreads == {t1, t2}
TwoTypes == {ty1, ty2}
TwoDecoders == {d1, d2}
=============================================================================
