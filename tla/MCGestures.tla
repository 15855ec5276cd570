------------------------------ MODULE MCGestures ------------------------------
(* InputGestures with the configurations of its runs.                        *)
EXTENDS InputGestures, GestureConfigurations
===============================================================================
