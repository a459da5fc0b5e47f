---------------------------- MODULE MCPrefsSync ----------------------------
(* PrefsSync on a small instance.                                          *)
EXTENDS PrefsSync, TLC
=============================================================================
