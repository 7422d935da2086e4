---------------------------- MODULE MCPortForwards ----------------------------
(* Model-checking instances of PortForwards: one or two forwards of one      *)
(* connection.                                                               *)
EXTENDS PortForwards
==============================================================================
