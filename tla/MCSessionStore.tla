---------------------------- MODULE MCSessionStore ----------------------------
(* Model-checking instances of SessionStore: without readers outside the     *)
(* lane, and with one.                                                       *)
EXTENDS SessionStore
==============================================================================
