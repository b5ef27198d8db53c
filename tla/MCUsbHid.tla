------------------------------ MODULE MCUsbHid ------------------------------
(* A line of three bytes and reports of two keys: no key, a letter, the    *)
(* newline, and a key that gives two bytes in the German layout.  Seven    *)
(* bytes fill the line twice, so that it is cut before a letter, before a  *)
(* newline, and inside a character.                                        *)
EXTENDS UsbHid

MCCodes == {0, 4, 40, 47}
=============================================================================
