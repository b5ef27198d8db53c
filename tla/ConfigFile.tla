----------------------------- MODULE ConfigFile -----------------------------
(***************************************************************************)
(* config.json between the two programs that handle it: load_config        *)
(* (config.c), which makes the Config of it that the process runs with,    *)
(* and the page (script.js), which shows it in a form and writes a whole   *)
(* new file from the form.                                                 *)
(*                                                                         *)
(* A file is a function from the sections that it has to records of items. *)
(* An item is what cJSON gives for a key: its valuestring is NULL unless   *)
(* it is a string, its valueint is 0 unless it is a number.  A text fits   *)
(* if it is shorter than the array of Config that is for it.               *)
(***************************************************************************)
EXTENDS Integers

Text(s)     == [type |-> "string", text |-> s, num |-> 0, fits |-> TRUE]
LongText(s) == [Text(s) EXCEPT !.fits = FALSE]
Number(n)   == [type |-> "number", text |-> "", num |-> n, fits |-> TRUE]
Null        == [type |-> "null", text |-> "", num |-> 0, fits |-> TRUE]
Absent      == [type |-> "absent", text |-> "", num |-> 0, fits |-> TRUE]

-----------------------------------------------------------------------------
(* load_config.  How it reads each key: "valuestring" and "valueint" are   *)
(* taken without a look at the item; "IsString" and "IsNumber" are taken   *)
(* if the item is one, and left zero if not.  A "valuestring" is copied    *)
(* whole, an "IsString" is cut to its array.                               *)
general   == [hostname |-> "IsString", version |-> "IsString"]
webserver == [host |-> "valuestring", port |-> "valueint"]
tcp       == [mode |-> "valuestring", port |-> "valueint", host |-> "valuestring"]
wifi      == [ssid |-> "valuestring", password |-> "valuestring",
              static_ip |-> "valuestring", gateway |-> "valuestring",
              dns |-> "valuestring", use_dhcp |-> "IsNumber"]
lan       == [static_ip |-> "valuestring", gateway |-> "valuestring",
              dns |-> "valuestring"]
usb_com   == [use_com |-> "IsNumber", port |-> "IsString",
              baudrate |-> "IsNumber", databits |-> "IsNumber",
              stopbits |-> "IsNumber", parity |-> "IsString"]
usb_hid   == [use_hid |-> "IsNumber", vid |-> "hex", pid |-> "hex",
              endpoint |-> "IsNumber", keyboard_layout |-> "layout"]
forwarder == [use_interval |-> "IsNumber", interval_ms |-> "IsNumber"]

Config == [general |-> general, webserver |-> webserver, tcp |-> tcp,
           forwarder |-> forwarder, wifi |-> wifi, lan |-> lan,
           usb_com |-> usb_com, usb_hid |-> usb_hid]

Sections == DOMAIN Config

Item(json, sec, key) == IF sec \in DOMAIN json THEN json[sec][key] ELSE Absent

(* A NULL is dereferenced: the key is not there, or it should have been a  *)
(* string and is not.                                                      *)
Crashes(json) ==
  \E sec \in DOMAIN json : \E key \in DOMAIN Config[sec] :
    \/ Config[sec][key] = "valuestring" /\ json[sec][key].type # "string"
    \/ Config[sec][key] = "valueint" /\ json[sec][key].type = "absent"

(* strcpy of a text too long for its array.                                *)
TooLong(json, sec, key) ==
  Config[sec][key] = "valuestring" /\ ~Item(json, sec, key).fits

Overflows(json) ==
  \E sec \in Sections : \E key \in DOMAIN Config[sec] : TooLong(json, sec, key)

(* The ids are named by their digits, "" for none; both are strings or     *)
(* neither is taken.                                                       *)
HasIds(json) == \A key \in {"vid", "pid"} : Item(json, "usb_hid", key).type = "string"

(* Any name of a layout taken as it is.                                    *)
Read_AnyLayout(how, item, ids) ==
  CASE how \in {"valuestring", "IsString"} -> item.text
    [] how \in {"valueint", "IsNumber"}    -> item.num
    [] how = "hex"    -> IF ids THEN item.text ELSE ""
    [] how = "layout" -> IF item.text = "" THEN "us" ELSE item.text

Read(how, item, ids) ==
  CASE how \in {"valuestring", "IsString"} -> item.text
    [] how \in {"valueint", "IsNumber"}    -> item.num
    [] how = "hex"    -> IF ids THEN item.text ELSE ""
    [] how = "layout" -> IF item.text = "de" THEN "de" ELSE "us"

load_config(json) ==
  [sec \in Sections |->
     [key \in DOMAIN Config[sec] |->
        Read(Config[sec][key], Item(json, sec, key), HasIds(json))]]

(* What the process may run with.  A text that is too long runs over the   *)
(* fields behind its array, and those that the file does not give          *)
(* afterwards keep what is left of it.                                     *)
NotGiven(json) ==
  {k \in UNION {{sec} \X DOMAIN Config[sec] : sec \in Sections} :
     LET how == Config[k[1]][k[2]]  item == Item(json, k[1], k[2])
     IN  \/ k[1] \notin DOMAIN json
         \/ how = "IsNumber" /\ item.type # "number"
         \/ how = "IsString" /\ item.type # "string"}

RunOver(json, fields) ==
  [sec \in Sections |->
     [key \in DOMAIN Config[sec] |->
        IF <<sec, key>> \notin fields THEN load_config(json)[sec][key]
        ELSE IF Config[sec][key] \in {"valueint", "IsNumber"} THEN 1 ELSE "rest"]]

Loads(json) ==
  IF Overflows(json) THEN {RunOver(json, fields) : fields \in SUBSET NotGiven(json)}
  ELSE {load_config(json)}

-----------------------------------------------------------------------------
(* The page.  What input shows each key; the version is written and not    *)
(* shown.                                                                  *)
inputs ==
  [general   |-> [hostname |-> "name", version |-> "fixed"],
   webserver |-> [host |-> "text", port |-> "number"],
   tcp       |-> [mode |-> "text", port |-> "number", host |-> "text"],
   forwarder |-> [use_interval |-> "checkbox", interval_ms |-> "number"],
   wifi      |-> [ssid |-> "text", password |-> "text", static_ip |-> "text",
                  gateway |-> "text", dns |-> "text", use_dhcp |-> "checkbox"],
   lan       |-> [static_ip |-> "text", gateway |-> "text", dns |-> "text"],
   usb_com   |-> [use_com |-> "checkbox", port |-> "text",
                  baudrate |-> "number", databits |-> "number",
                  stopbits |-> "number", parity |-> "text"],
   usb_hid   |-> [use_hid |-> "checkbox", vid |-> "text", pid |-> "text",
                  endpoint |-> "number0", keyboard_layout |-> "text"]]

DefaultName == "Node_bridge"

(* What getConfig puts into an input.  A 0 is shown as an empty field, but *)
(* for the endpoint.                                                       *)
Shown(input, item) ==
  CASE input = "checkbox" ->
         Number(IF item.num # 0 \/ item.text # "" THEN 1 ELSE 0)
    [] input = "number"   -> IF item.num # 0 THEN item ELSE Text("")
    [] input = "number0"  -> IF item.type = "number" THEN item ELSE Text("")
    [] input = "name"     -> IF item.text # "" THEN item ELSE Text(DefaultName)
    [] input = "text"     -> IF item.text # "" THEN item ELSE Text("")
    [] input = "fixed"    -> Text("1.0.0")

(* A flag that is only on if it is 1.                                      *)
getConfig_IsOne(json) ==
  [sec \in Sections |->
     [key \in DOMAIN inputs[sec] |->
        LET input == inputs[sec][key]  item == Item(json, sec, key)
        IN  IF input = "checkbox" THEN Number(IF item.num = 1 THEN 1 ELSE 0)
            ELSE Shown(input, item)]]

getConfig(json) ==
  [sec \in Sections |->
     [key \in DOMAIN inputs[sec] |-> Shown(inputs[sec][key], Item(json, sec, key))]]

(* The inputs before getConfig, or without it.                             *)
Empty(input) ==
  CASE input = "checkbox" -> Number(0)
    [] input = "fixed"    -> Text("1.0.0")
    [] OTHER              -> Text("")

blank == [sec \in Sections |-> [key \in DOMAIN inputs[sec] |-> Empty(inputs[sec][key])]]

(* The field left out when it is empty.                                    *)
Saved_Omits(input, shown) ==
  IF input \in {"number", "number0"} /\ shown.type # "number" THEN Absent ELSE shown

(* The checkbox saved as the true or false that it is.                     *)
Saved_Bool(input, shown) ==
  IF input = "checkbox" THEN [Null EXCEPT !.type = "bool"] ELSE shown

(* What saveButtonClick makes of an input: parseInt of an empty field is   *)
(* NaN, which JSON writes as null.                                         *)
Saved(input, shown) ==
  CASE input \in {"number", "number0"} -> IF shown.type = "number" THEN shown ELSE Null
    [] input = "name" -> IF shown.text = "" THEN Text(DefaultName) ELSE shown
    [] OTHER -> shown

(* The gateways of the two networks the wrong way round.                   *)
saveButtonClick_Crossed(form) ==
  [sec \in Sections |->
     [key \in DOMAIN inputs[sec] |->
        Saved(inputs[sec][key],
              IF key = "gateway" THEN form[IF sec = "lan" THEN "wifi" ELSE "lan"][key]
              ELSE form[sec][key])]]

saveButtonClick(form) ==
  [sec \in Sections |->
     [key \in DOMAIN inputs[sec] |-> Saved(inputs[sec][key], form[sec][key])]]

-----------------------------------------------------------------------------
(* What the process makes of a file: a flag is on or off, no name is the   *)
(* name that the page gives, and the version means nothing.                *)
Means(input, v) ==
  CASE input = "checkbox" -> v # 0
    [] input = "fixed" -> ""
    [] input = "name" -> IF v = "" THEN DefaultName ELSE v
    [] OTHER -> v

Meaning(json) ==
  [sec \in Sections |->
     [key \in DOMAIN inputs[sec] |->
        Means(inputs[sec][key], load_config(json)[sec][key])]]

IsItem(item) ==
  /\ DOMAIN item = {"type", "text", "num", "fits"}
  /\ item.fits \in BOOLEAN
  /\ item.type # "string" => item.text = "" /\ item.fits
  /\ item.type # "number" => item.num = 0

(* No item has a type that its key is not meant to have, and the two ids   *)
(* come together.                                                          *)
WellTyped(json) ==
  /\ DOMAIN json \subseteq Sections
  /\ \A sec \in DOMAIN json : \A key \in DOMAIN Config[sec] :
       /\ IsItem(json[sec][key])
       /\ json[sec][key].type \in {"null", "absent"} \cup
            IF Config[sec][key] \in {"valueint", "IsNumber"} THEN {"number"} ELSE {"string"}
  /\ Item(json, "usb_hid", "vid").type = Item(json, "usb_hid", "pid").type

(* What can be in an input.                                                *)
CanShow(input, shown) ==
  /\ IsItem(shown)
  /\ shown.type \in CASE input = "checkbox"             -> {"number"}
                      [] input \in {"number", "number0"} -> {"number", "string"}
                      [] OTHER                           -> {"string"}
=============================================================================
