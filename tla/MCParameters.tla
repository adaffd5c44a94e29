---------------------------- MODULE MCParameters ----------------------------
(* Lengths of the texts for TLC: as long as their places in the EEPROM,    *)
(* and a password of the 20 characters that login.html (73) accepts.       *)
EXTENDS Parameters

SlotSize == [t \in Texts |-> Table[t].size]
LongPassword == [SlotSize EXCEPT !["PASS"] = 21]
=============================================================================
