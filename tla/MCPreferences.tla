---------------------------- MODULE MCPreferences ----------------------------
(* Model-checking instance of Preferences. *)
EXTENDS Preferences
==============================================================================
