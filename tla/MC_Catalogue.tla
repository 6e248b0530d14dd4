---------------------------- MODULE MC_Catalogue ----------------------------
(* Commands spelled in upper and lower case, with and without a second one,  *)
(* and an id that is defined twice.                                         *)
EXTENDS Catalogue, TLC

CONSTANTS a, b, c, fb, FB, f4, F4

Define(id, byte, byte2, type) == [id |-> id, byte |-> byte, byte2 |-> byte2, type |-> type]

MC_Upper == (fb :> FB) @@ (FB :> FB) @@ (f4 :> F4) @@ (F4 :> F4)
MC_Definitions ==
  {Define(a, fb, NoByte, "Sensor"), Define(a, F4, NoByte, "Settings"),
   Define(b, FB, NoByte, "Settings"), Define(b, fb, f4, "Status"),
   Define(c, FB, F4, "Sensor"), Define(c, f4, NoByte, "Status"),
   Define(c, FB, NoByte, "Settings")}
=============================================================================
