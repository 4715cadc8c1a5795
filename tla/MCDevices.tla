----------------------------- MODULE MCDevices -----------------------------
EXTENDS Devices

\* "One second has passed" and its end of line.
TimerMessage == <<"char", "NL">>
=============================================================================
