--------------------------- MODULE MCAlarmDelivery ---------------------------
(* Instance of AlarmDelivery for TLC: two sensors and an input.            *)
EXTENDS AlarmDelivery

\* The second sensor has no WhatsApp recipient, the input no phone.
TheWAppOn == <<{1, 2}, {}, {2}>>
TheSMSOn  == <<{1}, {1}, {}>>
TheDelay  == <<0, 2, 1>>
=============================================================================
