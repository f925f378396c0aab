------------------------------ MODULE MCWindows ------------------------------
(* An instance of Windows for TLC: an hour of two instants, ranges around    *)
(* the lengths where the step changes, where it is doubled, and where a      *)
(* duration no longer measures them                                          *)
EXTENDS Windows

Instants == (0..9) \cup (47..53) \cup (93..103) \cup (285..295) \cup (668..680) \cup (790..820)
            \cup (1690..1700)
=============================================================================
