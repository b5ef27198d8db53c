--------------------------- MODULE KeyboardLayout ---------------------------
(***************************************************************************)
(* keyboard_layout.c: what a HID key code stands for.  The tables start at *)
(* index 0, so code k is entry k + 1 of a sequence here.  A character that *)
(* is not ASCII has a name and two bytes in UTF-8; "NL" is the newline.    *)
(***************************************************************************)
EXTENDS Naturals, Sequences

Layouts == {"us", "de"}

ascii_us ==
  <<"", "", "", "", "a", "b", "c", "d", "e", "f", "g", "h", "i", "j", "k", "l",
    "m", "n", "o", "p", "q", "r", "s", "t", "u", "v", "w", "x", "y", "z",
    "1", "2", "3", "4", "5", "6", "7", "8", "9", "0", "NL", "", "", "TAB", " ",
    "-", "=", "[", "]", "BACKSLASH", "#", ";", "'", "BACKTICK", ",", ".", "/",
    "", "", "", "", "", "">>

shift_ascii_us ==
  <<"", "", "", "", "A", "B", "C", "D", "E", "F", "G", "H", "I", "J", "K", "L",
    "M", "N", "O", "P", "Q", "R", "S", "T", "U", "V", "W", "X", "Y", "Z",
    "!", "@", "#", "$", "%", "^", "&", "*", "(", ")", "NL", "", "", "TAB", " ",
    "_", "+", "{", "}", "|", "~", ":", "QUOTE", "~", "<", ">", "?",
    "", "", "", "", "", "">>

ascii_de ==
  [ascii_us EXCEPT ![48] = "u-umlaut", ![49] = "+", ![50] = "a-umlaut",
                   ![53] = "o-umlaut", ![57] = "-"]

shift_ascii_de ==
  [shift_ascii_us EXCEPT
     ![32] = "QUOTE", ![33] = "paragraph", ![36] = "&", ![37] = "/",
     ![38] = "(", ![39] = ")", ![40] = "=", ![47] = "*", ![48] = "U-umlaut",
     ![49] = "*", ![50] = "A-umlaut", ![51] = "'", ![53] = "O-umlaut"]

table(layout, shift) ==
  CASE layout = "de" /\ shift  -> shift_ascii_de
    [] layout = "de" /\ ~shift -> ascii_de
    [] layout # "de" /\ shift  -> shift_ascii_us
    [] layout # "de" /\ ~shift -> ascii_us

(* The string for a code, the empty one for a code past the end.           *)
hid_to_ascii(code, shift, layout) ==
  LET t == table(layout, shift)
  IN  IF code < Len(t) THEN t[code + 1] ELSE ""

TwoBytes == {"u-umlaut", "a-umlaut", "o-umlaut", "U-umlaut", "A-umlaut",
             "O-umlaut", "paragraph"}

(* The length in bytes of a string of the tables.                          *)
Bytes(str) == IF str = "" THEN 0 ELSE IF str \in TwoBytes THEN 2 ELSE 1
=============================================================================
