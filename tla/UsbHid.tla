------------------------------- MODULE UsbHid -------------------------------
(***************************************************************************)
(* usb_hid.c: the loop that turns HID keyboard reports into lines of text  *)
(* and passes each line to forwarder_send.  One thread; what makes it hard *)
(* is the buffer of the line, which is cut when it is full, in the middle  *)
(* of a line, of a report or of a two byte character, and the report       *)
(* buffer, of which a short report overwrites only the beginning.          *)
(*                                                                         *)
(* The bytes the loop produces are numbered in the order in which they are *)
(* produced; typed says of each whether it is a newline.                   *)
(***************************************************************************)
EXTENDS KeyboardLayout, FiniteSets

CONSTANTS
  Slots,      (* key codes in a report: 6                                  *)
  LineSize,   (* sizeof(internal_buffer)                                   *)
  Codes,      (* key codes the device can report                           *)
  MaxTyped    (* bound of the model: no report is read after so many bytes *)

ASSUME UsbHidAssumption ==
  /\ Slots \in Nat \ {0}
  /\ LineSize \in Nat \ {0, 1}
  /\ Codes \subseteq Nat
  /\ MaxTyped \in Nat

VARIABLES
  keyboard_layout,  (* of the configuration                                *)
  shift,            (* buf[1] & (0x02 | 0x20)                              *)
  keys,             (* buf[2 ..]                                           *)
  slot,             (* index of the key being decoded, 0 in hid_read       *)
  pos,              (* index of the byte of its string                     *)
  internal_buffer,  (* internal_buffer[0 .. buf_index - 1], as numbers     *)
  typed,            (* history: the bytes produced                         *)
  sent              (* history: the chunks passed to forwarder_send        *)

reportVars == <<keyboard_layout, shift, keys>>
hidVars    == <<keyboard_layout, shift, keys, slot, pos, internal_buffer,
                typed, sent>>

buf_index == Len(internal_buffer)

(* The report buffer is not initialised: a first report that is short      *)
(* leaves anything in it.                                                  *)
Init ==
  /\ keyboard_layout \in Layouts
  /\ shift \in BOOLEAN
  /\ keys \in [1..Slots -> Codes]
  /\ slot = 0
  /\ pos = 1
  /\ internal_buffer = <<>>
  /\ typed = <<>>
  /\ sent = <<>>

(* hid_read returns len bytes: the modifiers are the second, the keys      *)
(* follow, and those that did not come keep their old value.               *)
ReadReport(len, s, k) ==
  /\ slot = 0
  /\ Len(typed) < MaxTyped
  /\ shift' = IF len > 1 THEN s ELSE shift
  /\ keys' = [i \in 1..Slots |-> IF i + 2 <= len THEN k[i] ELSE keys[i]]
  /\ slot' = 1
  /\ pos' = 1
  /\ UNCHANGED <<keyboard_layout, internal_buffer, typed, sent>>

(* hid_read fails, as it does for ever once the device is unplugged: the   *)
(* loop calls it again.                                                    *)
ReadFails == slot = 0 /\ UNCHANGED hidVars

str == hid_to_ascii(keys[slot], shift, keyboard_layout)

InString == slot # 0 /\ keys[slot] # 0 /\ pos <= Bytes(str)

(* What the body of the inner loop leaves in the line and passes on: a     *)
(* full line is sent first, and the byte there was no room for is not kept.*)
Full_OffByOne == buf_index >= LineSize

Full == buf_index >= LineSize - 1

line(b) == IF Full THEN <<>> ELSE Append(internal_buffer, b)

(* "Resetting buffer", as the message says, without sending it.            *)
cut_Reset == <<>>

cut == IF Full THEN <<internal_buffer>> ELSE <<>>

(* The line not emptied after it was sent.                                 *)
PutByte_NoReset ==
  /\ InString
  /\ LET b  == Len(typed) + 1
         nl == str = "NL"
     IN  /\ typed' = Append(typed, nl)
         /\ internal_buffer' = line(b)
         /\ sent' = sent \o cut \o (IF nl THEN <<line(b)>> ELSE <<>>)
  /\ pos' = pos + 1
  /\ UNCHANGED <<reportVars, slot>>

PutByte ==
  /\ InString
  /\ LET b  == Len(typed) + 1
         nl == str = "NL"
     IN  /\ typed' = Append(typed, nl)
         /\ internal_buffer' = IF nl THEN <<>> ELSE line(b)
         /\ sent' = sent \o cut \o (IF nl THEN <<line(b)>> ELSE <<>>)
  /\ pos' = pos + 1
  /\ UNCHANGED <<reportVars, slot>>

(* The next of the keys, or back to hid_read.                              *)
NextKey ==
  /\ slot # 0
  /\ ~InString
  /\ slot' = IF slot = Slots THEN 0 ELSE slot + 1
  /\ pos' = 1
  /\ UNCHANGED <<reportVars, internal_buffer, typed, sent>>

Next ==
  \/ \E len \in 1..Slots + 2, s \in BOOLEAN, k \in [1..Slots -> Codes] :
       ReadReport(len, s, k)
  \/ ReadFails
  \/ PutByte
  \/ NextKey

Spec == Init /\ [][Next]_hidVars

-----------------------------------------------------------------------------
(* Every variable has its type; buf_index leaves room for the terminator   *)
(* written at internal_buffer[buf_index].                                  *)
TypeOK ==
  /\ keyboard_layout \in Layouts
  /\ shift \in BOOLEAN
  /\ keys \in [1..Slots -> Codes]
  /\ slot \in 0..Slots
  /\ pos \in 1..3
  /\ internal_buffer \in Seq(1..Len(typed))
  /\ buf_index < LineSize
  /\ typed \in Seq(BOOLEAN)
  /\ sent \in Seq(Seq(1..Len(typed)))

Ended(chunk) == chunk # <<>> /\ typed[chunk[Len(chunk)]]
WasCut(chunk) == chunk # <<>> /\ ~typed[chunk[Len(chunk)]]

(* What forwarder_send is given: a line with its newline and no other      *)
(* newline in it; or a line that was cut when the buffer was full, which   *)
(* fills it; or nothing, when the byte there was no room for was the       *)
(* newline.  Nothing that waits in the buffer has been ended.              *)
Framing ==
  /\ \A i \in 1..Len(sent) :
       LET chunk == sent[i]
       IN  /\ \A j \in 1..Len(chunk) - 1 : ~typed[chunk[j]]
           /\ WasCut(chunk) => Len(chunk) = LineSize - 1
           /\ chunk = <<>> => i > 1 /\ WasCut(sent[i - 1])
  /\ \A j \in 1..buf_index : ~typed[internal_buffer[j]]

Kept(n) ==
  \/ \E i \in 1..Len(sent) : \E j \in 1..Len(sent[i]) : sent[i][j] = n
  \/ \E j \in 1..buf_index : internal_buffer[j] = n

Lost == {n \in 1..Len(typed) : ~Kept(n)}

Ascending(s) == \A i, j \in 1..Len(s) : i < j => s[i] < s[j]

(* Bytes are passed on in the order in which they were typed, each once,   *)
(* within a chunk and from chunk to chunk.                                 *)
TypedOrder ==
  /\ Ascending(internal_buffer)
  /\ \A i \in 1..Len(sent) :
       /\ Ascending(sent[i])
       /\ \A a \in 1..Len(sent[i]) :
            /\ \A j \in i + 1..Len(sent) : \A b \in 1..Len(sent[j]) :
                 sent[i][a] < sent[j][b]
            /\ \A b \in 1..buf_index : sent[i][a] < internal_buffer[b]

(* Exactly one byte is lost for each line that is cut, and none otherwise: *)
(* every report, key and two byte character reaches the forwarder.         *)
OneLostPerCut ==
  Cardinality(Lost) = Cardinality({i \in 1..Len(sent) : WasCut(sent[i])})
=============================================================================
