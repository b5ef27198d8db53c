-------------------------- MODULE ConfigPageProofs --------------------------
(***************************************************************************)
(* Theorems about ConfigPage, for any files, edits and tabs, on lemmas     *)
(* about ConfigFile: what the page's form does to any item.                *)
(***************************************************************************)
EXTENDS ConfigPage, TLAPS

(* Both programs have the same sections.                                   *)
LEMMA SameSections ==
  /\ Sections = {"general", "webserver", "tcp", "forwarder", "wifi", "lan",
                 "usb_com", "usb_hid"}
  /\ DOMAIN Config = Sections
  /\ DOMAIN inputs = Sections
BY DEF Sections, Config, inputs

(* The types that an item has for a key, and those the page writes.        *)
Typed(how, item) ==
  item.type \in {"null", "absent"} \cup
    IF how \in {"valueint", "IsNumber"} THEN {"number"} ELSE {"string"}

Written(how, item) ==
  item.type \in IF how \in {"valueint", "IsNumber"} THEN {"number", "null"} ELSE {"string"}

(* What load_config asks of a key suits the input that shows it.           *)
Suits(how, input) ==
  \/ how \in {"valuestring", "hex", "layout"} /\ input = "text"
  \/ how = "valueint" /\ input = "number"
  \/ how = "IsString" /\ input \in {"text", "name", "fixed"}
  \/ how = "IsNumber" /\ input \in {"checkbox", "number", "number0"}

LEMMA SectionSuits ==
  ASSUME NEW sec \in Sections
  PROVE  /\ DOMAIN inputs[sec] = DOMAIN Config[sec]
         /\ \A key \in DOMAIN Config[sec] :
              Suits(Config[sec][key], inputs[sec][key])
<1>1. CASE sec = "general"
  BY <1>1 DEF Config, inputs, general, Suits
<1>2. CASE sec = "webserver"
  BY <1>2 DEF Config, inputs, webserver, Suits
<1>3. CASE sec = "tcp"
  BY <1>3 DEF Config, inputs, tcp, Suits
<1>4. CASE sec = "forwarder"
  BY <1>4 DEF Config, inputs, forwarder, Suits
<1>5. CASE sec = "wifi"
  BY <1>5 DEF Config, inputs, wifi, Suits
<1>6. CASE sec = "lan"
  BY <1>6 DEF Config, inputs, lan, Suits
<1>7. CASE sec = "usb_com"
  BY <1>7 DEF Config, inputs, usb_com, Suits
<1>8. CASE sec = "usb_hid"
  BY <1>8 DEF Config, inputs, usb_hid, Suits
<1> QED
  BY <1>1, <1>2, <1>3, <1>4, <1>5, <1>6, <1>7, <1>8, SameSections

(* The ids are the two keys that are read as hex.                          *)
LEMMA HexKeys ==
  /\ "usb_hid" \in Sections
  /\ \A key \in {"vid", "pid"} : key \in DOMAIN Config["usb_hid"]
  /\ \A key \in DOMAIN Config["usb_hid"] :
       Config["usb_hid"][key] = "hex" <=> key \in {"vid", "pid"}
  /\ \A sec \in Sections : \A key \in DOMAIN Config[sec] :
       Config[sec][key] = "hex" => sec = "usb_hid"
<1>1. Config["usb_hid"] = usb_hid
  BY DEF Config
<1>2. \A sec \in Sections : \A key \in DOMAIN Config[sec] :
        Config[sec][key] = "hex" => sec = "usb_hid"
  <2> SUFFICES ASSUME NEW sec \in Sections, NEW key \in DOMAIN Config[sec],
                      sec # "usb_hid"
               PROVE  Config[sec][key] # "hex"
    OBVIOUS
  <2>1. CASE sec = "general"
    BY <2>1 DEF Config, general
  <2>2. CASE sec = "webserver"
    BY <2>2 DEF Config, webserver
  <2>3. CASE sec = "tcp"
    BY <2>3 DEF Config, tcp
  <2>4. CASE sec = "forwarder"
    BY <2>4 DEF Config, forwarder
  <2>5. CASE sec = "wifi"
    BY <2>5 DEF Config, wifi
  <2>6. CASE sec = "lan"
    BY <2>6 DEF Config, lan
  <2>7. CASE sec = "usb_com"
    BY <2>7 DEF Config, usb_com
  <2> QED
    BY <2>1, <2>2, <2>3, <2>4, <2>5, <2>6, <2>7, SameSections
<1>3. \A key \in DOMAIN usb_hid : usb_hid[key] = "hex" <=> key \in {"vid", "pid"}
  BY DEF usb_hid
<1>4. \A key \in {"vid", "pid"} : key \in DOMAIN usb_hid
  BY DEF usb_hid
<1> QED
  BY <1>1, <1>2, <1>3, <1>4, SameSections

-----------------------------------------------------------------------------
(* One key.                                                                *)

LEMMA MadeItems ==
  /\ \A t : /\ IsItem(Text(t)) /\ Text(t).type = "string"
            /\ Text(t).text = t /\ Text(t).num = 0 /\ Text(t).fits
  /\ \A n : /\ IsItem(Number(n)) /\ Number(n).type = "number"
            /\ Number(n).text = "" /\ Number(n).num = n /\ Number(n).fits
  /\ IsItem(Null) /\ Null.type = "null" /\ Null.text = "" /\ Null.num = 0
  /\ Null.fits
  /\ IsItem(Absent) /\ Absent.type = "absent" /\ Absent.text = "" /\ Absent.num = 0
  /\ Absent.fits
BY DEF Text, Number, Null, Absent, IsItem

(* An item is shown as something that its input can hold ...               *)
LEMMA ShownFits ==
  ASSUME NEW how, NEW input, Suits(how, input),
         NEW item, IsItem(item), Typed(how, item)
  PROVE  CanShow(input, Shown(input, item))
<1>1. CASE input = "checkbox"
  BY <1>1, MadeItems DEF CanShow, Shown
<1>2. CASE input \in {"number", "number0"}
  <2>1. Shown(input, item) \in {item, Text("")}
    BY <1>2 DEF Shown
  <2>2. how \in {"valueint", "IsNumber"}
    BY <1>2 DEF Suits
  <2>3. Shown(input, item) = item => item.type = "number"
    BY <1>2, <2>2, MadeItems DEF Shown, IsItem, Typed
  <2>4. IsItem(Shown(input, item))
    BY <2>1, MadeItems
  <2>5. Shown(input, item).type \in {"number", "string"}
    BY <2>1, <2>3, MadeItems
  <2> QED
    BY <1>2, <2>4, <2>5 DEF CanShow
<1>3. CASE input \in {"text", "name", "fixed"}
  <2>1. \/ \E t : Shown(input, item) = Text(t)
        \/ Shown(input, item) = item /\ item.text # ""
    BY <1>3 DEF Shown
  <2>2. item.text # "" => item.type = "string"
    BY DEF IsItem
  <2> QED
    BY <1>3, <2>1, <2>2, MadeItems DEF CanShow
<1> QED
  BY <1>1, <1>2, <1>3 DEF Suits

(* ... and what an input holds is written as something that load_config    *)
(* takes.                                                                  *)
LEMMA SavedFits ==
  ASSUME NEW how, NEW input, Suits(how, input),
         NEW shown, CanShow(input, shown)
  PROVE  IsItem(Saved(input, shown)) /\ Written(how, Saved(input, shown))
<1>1. CASE input = "checkbox"
  BY <1>1 DEF CanShow, Saved, Written, Suits
<1>2. CASE input \in {"number", "number0"}
  BY <1>2, MadeItems DEF CanShow, Saved, Written, Suits
<1>3. CASE input \in {"text", "name", "fixed"}
  BY <1>3, MadeItems DEF CanShow, Saved, Written, Suits
<1> QED
  BY <1>1, <1>2, <1>3 DEF Suits

(* What comes back of an item through the form.                            *)
Back(input, item) == Saved(input, Shown(input, item))

CameBack(input, item, new) ==
  /\ input \in {"number", "number0"} => new.num = item.num
  /\ input = "checkbox" => (new.num # 0 <=> item.num # 0)
  /\ input = "text" => new.text = item.text
  /\ input = "name" =>
       new.text = IF item.text = "" THEN DefaultName ELSE item.text
  /\ input = "text" => (new.fits <=> item.fits \/ item.text = "")

LEMMA RoundTrip ==
  ASSUME NEW how, NEW input, Suits(how, input),
         NEW item, IsItem(item), Typed(how, item)
  PROVE  CameBack(input, item, Back(input, item))
<1> DEFINE new == Back(input, item)
<1>1. ASSUME input \in {"number", "number0"} PROVE new.num = item.num
  <2>1. how \in {"valueint", "IsNumber"}
    BY <1>1 DEF Suits
  <2>2. item.num # 0 => item.type = "number"
    BY DEF IsItem
  <2>3. CASE Shown(input, item) = item /\ item.type = "number"
    BY <1>1, <2>3 DEF Back, Saved
  <2>4. CASE Shown(input, item) = Text("") /\ item.num = 0
    BY <1>1, <2>4, MadeItems DEF Back, Saved
  <2>5. \/ Shown(input, item) = item /\ item.type = "number"
        \/ Shown(input, item) = Text("") /\ item.num = 0
    BY <1>1, <2>2 DEF Shown, IsItem
  <2> QED
    BY <2>3, <2>4, <2>5
<1>2. ASSUME input = "checkbox" PROVE new.num # 0 <=> item.num # 0
  <2>1. item.text = ""
    BY <1>2 DEF Suits, Typed, IsItem
  <2>2. new = Number(IF item.num # 0 THEN 1 ELSE 0)
    BY <1>2, <2>1 DEF Back, Saved, Shown
  <2> HIDE DEF new
  <2>3. CASE item.num # 0
    <3>1. new = Number(1)
      BY <2>2, <2>3
    <3>2. new.num = 1
      BY <3>1, MadeItems
    <3> QED
      BY <2>3, <3>2
  <2>4. CASE item.num = 0
    <3>1. new = Number(0)
      BY <2>2, <2>4
    <3> QED
      BY <2>4, <3>1, MadeItems
  <2> QED
    BY <2>3, <2>4
<1>3. ASSUME input = "text"
      PROVE  new.text = item.text /\ (new.fits <=> item.fits \/ item.text = "")
  <2>1. new = IF item.text # "" THEN item ELSE Text("")
    BY <1>3 DEF Back, Saved, Shown
  <2> HIDE DEF new
  <2>2. CASE item.text # ""
    BY <2>1, <2>2
  <2>3. CASE item.text = ""
    BY <2>1, <2>3, MadeItems
  <2> QED
    BY <2>2, <2>3
<1>4. ASSUME input = "name"
      PROVE  new.text = IF item.text = "" THEN DefaultName ELSE item.text
  <2> DEFINE shown == IF item.text # "" THEN item ELSE Text(DefaultName)
  <2>1. DefaultName # ""
    BY DEF DefaultName
  <2>2. shown.text = IF item.text = "" THEN DefaultName ELSE item.text
    BY <2>1, MadeItems
  <2>3. Shown(input, item) = shown
    BY <1>4 DEF Shown
  <2>4. shown.text # ""
    BY <2>1, <2>2
  <2> HIDE DEF shown
  <2>5. new = shown
    BY <1>4, <2>3, <2>4 DEF Back, Saved
  <2> QED
    BY <2>2, <2>5
<1> HIDE DEF new
<1>5. CameBack(input, item, new)
  BY <1>1, <1>2, <1>3, <1>4 DEF CameBack
<1> QED
  BY <1>5 DEF new

(* What comes back means what the item meant.                              *)
LEMMA SameMeaning ==
  ASSUME NEW how, NEW input, Suits(how, input),
         NEW item, IsItem(item), Typed(how, item),
         NEW ids \in BOOLEAN, how = "hex" /\ ~ids => item.text = ""
  PROVE  Means(input, Read(how, Back(input, item), TRUE)) =
           Means(input, Read(how, item, ids))
<1> DEFINE new == Back(input, item)
           old == Read(how, item, ids)
           val == Read(how, new, TRUE)
<1>0. CameBack(input, item, new)
  BY RoundTrip
<1> HIDE DEF new
<1>1. /\ input \in {"number", "number0"} => new.num = item.num
      /\ input = "checkbox" => (new.num # 0 <=> item.num # 0)
      /\ input = "text" => new.text = item.text
      /\ input = "name" =>
           new.text = IF item.text = "" THEN DefaultName ELSE item.text
  BY <1>0 DEF CameBack
<1>2. CASE input \in {"number", "number0"}
  <2>1. old = item.num /\ val = new.num
    BY <1>2 DEF Suits, Read
  <2>2. old = val
    BY <1>1, <1>2, <2>1
  <2> QED
    BY <2>2 DEF new
<1>3. CASE input = "checkbox"
  <2>1. old = item.num /\ val = new.num
    BY <1>3 DEF Suits, Read
  <2> HIDE DEF old, val
  <2>2. Means(input, old) = (old # 0) /\ Means(input, val) = (val # 0)
    BY <1>3 DEF Means
  <2>3. new.num # 0 <=> item.num # 0
    BY <1>1, <1>3
  <2> QED
    BY <2>1, <2>2, <2>3 DEF old, val, new
<1>4. CASE input = "text"
  <2>1. new.text = item.text
    BY <1>1, <1>4
  <2>2. old = val
    BY <1>4, <2>1 DEF Suits, Read
  <2> QED
    BY <2>2 DEF new
<1>5. CASE input = "name"
  <2>1. old = item.text /\ val = new.text
    BY <1>5 DEF Suits, Read
  <2> HIDE DEF old, val
  <2>2. val = IF old = "" THEN DefaultName ELSE old
    BY <1>1, <1>5, <2>1
  <2>3. val # ""
    BY <2>2 DEF DefaultName
  <2>4. Means(input, old) = Means(input, val)
    BY <1>5, <2>2, <2>3 DEF Means
  <2> QED
    BY <2>4 DEF old, val, new
<1>6. CASE input = "fixed"
  BY <1>6 DEF Means
<1> QED
  BY <1>2, <1>3, <1>4, <1>5, <1>6 DEF Suits

-----------------------------------------------------------------------------
(* A file.                                                                 *)

LEMMA ItemFits ==
  ASSUME NEW json, WellTyped(json),
         NEW sec \in Sections, NEW key \in DOMAIN Config[sec]
  PROVE  /\ IsItem(Item(json, sec, key))
         /\ Typed(Config[sec][key], Item(json, sec, key))
<1>1. CASE sec \in DOMAIN json
  BY <1>1 DEF WellTyped, Item, Typed
<1>2. CASE sec \notin DOMAIN json
  BY <1>2, MadeItems DEF Item, Typed
<1> QED
  BY <1>1, <1>2

-----------------------------------------------------------------------------
(* Keys and what they mean.                                                *)

LEMMA KeysAre ==
  /\ \A k \in Keys : /\ k[1] \in Sections
                     /\ k[2] \in DOMAIN Config[k[1]] /\ k[2] \in DOMAIN inputs[k[1]]
                     /\ k = <<k[1], k[2]>>
  /\ \A sec \in Sections : \A key \in DOMAIN Config[sec] : <<sec, key>> \in Keys
BY SectionSuits DEF Keys

LEMMA MeaningOf ==
  ASSUME NEW json, NEW k \in Keys
  PROVE  Meaning(json)[k[1]][k[2]] =
           Means(inputs[k[1]][k[2]],
                 Read(Config[k[1]][k[2]], Item(json, k[1], k[2]), HasIds(json)))
BY KeysAre DEF Meaning, load_config

(* A file without sections.                                                *)
LEMMA EmptyFile ==
  /\ WellTyped(<<>>) /\ ~Crashes(<<>>)
  /\ \A sec, key : Item(<<>>, sec, key) = Absent
<1>1. DOMAIN <<>> = {}
  OBVIOUS
<1>2. \A sec, key : Item(<<>>, sec, key) = Absent
  BY <1>1 DEF Item
<1> QED
  BY <1>1, <1>2 DEF WellTyped, Crashes

-----------------------------------------------------------------------------
(* What a form holds: for a key that was touched something that a user     *)
(* put in, for any other something that is saved like the item of the file *)
(* that the form was filled from.                                          *)
FormOK(held, json, keys, made) ==
  /\ DOMAIN held = Sections
  /\ \A sec \in Sections : DOMAIN held[sec] = DOMAIN inputs[sec]
  /\ \A k \in Keys :
       /\ CanShow(inputs[k[1]][k[2]], held[k[1]][k[2]])
       /\ k \in keys => \E e \in made : <<e[1], e[2]>> = k /\ held[k[1]][k[2]] = e[3]
       /\ k \notin keys =>
            Saved(inputs[k[1]][k[2]], held[k[1]][k[2]])
              = Back(inputs[k[1]][k[2]], Item(json, k[1], k[2]))

(* And what is posted from it.                                             *)
BodyOK(body, json, keys, made) ==
  /\ DOMAIN body = Sections
  /\ \A k \in Keys :
       /\ IsItem(body[k[1]][k[2]]) /\ Written(Config[k[1]][k[2]], body[k[1]][k[2]])
       /\ k \in keys =>
            \E e \in made : /\ <<e[1], e[2]>> = k
                           /\ CanShow(inputs[k[1]][k[2]], e[3])
                           /\ body[k[1]][k[2]] = Saved(inputs[k[1]][k[2]], e[3])
       /\ k \notin keys =>
            body[k[1]][k[2]] = Back(inputs[k[1]][k[2]], Item(json, k[1], k[2]))

(* Whatever a file says of a key has one of the sources NothingInvented    *)
(* names, and so have the texts that are too long.                         *)
MadeMeanings(made, k) ==
  {Means(inputs[k[1]][k[2]],
         Read(Config[k[1]][k[2]], Saved(inputs[k[1]][k[2]], e[3]), TRUE)) :
     e \in {d \in made : <<d[1], d[2]>> = k}}

Sourced(json, made, first) ==
  /\ WellTyped(json)
  /\ \A k \in Keys :
       /\ Meaning(json)[k[1]][k[2]] \in
            {Meaning(first)[k[1]][k[2]], Meaning(<<>>)[k[1]][k[2]]}
              \cup MadeMeanings(made, k)
       /\ TooLong(json, k[1], k[2]) =>
            \/ TooLong(first, k[1], k[2])
            \/ \E e \in made : <<e[1], e[2]>> = k /\ ~e[3].fits

-----------------------------------------------------------------------------
(* All three stay true as more is typed.                                   *)
LEMMA Grows ==
  ASSUME NEW made, NEW more, made \subseteq more
  PROVE  /\ \A held, json, keys :
              FormOK(held, json, keys, made) => FormOK(held, json, keys, more)
         /\ \A body, json, keys :
              BodyOK(body, json, keys, made) => BodyOK(body, json, keys, more)
         /\ \A json, first : Sourced(json, made, first) => Sourced(json, more, first)
<1>1. \A k : MadeMeanings(made, k) \subseteq MadeMeanings(more, k)
  BY DEF MadeMeanings
<1>2. ASSUME NEW held, NEW json, NEW keys, FormOK(held, json, keys, made)
      PROVE  FormOK(held, json, keys, more)
  BY <1>2 DEF FormOK
<1>3. ASSUME NEW body, NEW json, NEW keys, BodyOK(body, json, keys, made)
      PROVE  BodyOK(body, json, keys, more)
  BY <1>3 DEF BodyOK
<1>4. ASSUME NEW json, NEW first, Sourced(json, made, first)
      PROVE  Sourced(json, more, first)
  <2>1. WellTyped(json)
    BY <1>4 DEF Sourced
  <2>2. ASSUME NEW k \in Keys
        PROVE  Meaning(json)[k[1]][k[2]] \in
                 {Meaning(first)[k[1]][k[2]], Meaning(<<>>)[k[1]][k[2]]}
                   \cup MadeMeanings(more, k)
    BY <1>1, <1>4, <2>2 DEF Sourced
  <2>3. ASSUME NEW k \in Keys, TooLong(json, k[1], k[2])
        PROVE  \/ TooLong(first, k[1], k[2])
               \/ \E e \in more : <<e[1], e[2]>> = k /\ ~e[3].fits
    BY <1>4, <2>3 DEF Sourced
  <2> QED
    BY <2>1, <2>2, <2>3 DEF Sourced
<1> QED
  BY <1>2, <1>3, <1>4

LEMMA EmptySourced == ASSUME NEW made, NEW first PROVE Sourced(<<>>, made, first)
<1>1. ASSUME NEW k \in Keys PROVE ~TooLong(<<>>, k[1], k[2])
  <2>1. Item(<<>>, k[1], k[2]) = Absent
    BY EmptyFile
  <2>2. Absent.fits
    BY MadeItems
  <2> QED
    BY <2>1, <2>2, Zenon DEF TooLong
<1>2. WellTyped(<<>>)
  BY EmptyFile
<1> QED
  BY <1>1, <1>2, Zenon DEF Sourced

LEMMA FirstSourced ==
  ASSUME NEW made, NEW first, WellTyped(first) PROVE Sourced(first, made, first)
BY DEF Sourced

-----------------------------------------------------------------------------
(* The form: blank, filled, changed.                                       *)

LEMMA BlankForm == ASSUME NEW made PROVE FormOK(blank, <<>>, {}, made)
<1>1. /\ DOMAIN blank = Sections
      /\ \A sec \in Sections : /\ DOMAIN blank[sec] = DOMAIN inputs[sec]
                               /\ \A key \in DOMAIN inputs[sec] :
                                    blank[sec][key] = Empty(inputs[sec][key])
  BY DEF blank
<1>2. ASSUME NEW how, NEW input, Suits(how, input)
      PROVE  /\ CanShow(input, Empty(input))
             /\ Saved(input, Empty(input)) = Back(input, Absent)
  <2>1. CASE input = "checkbox"
    BY <2>1, MadeItems DEF CanShow, Empty, Saved, Back, Shown
  <2>2. CASE input \in {"number", "number0"}
    BY <2>2, MadeItems DEF CanShow, Empty, Saved, Back, Shown
  <2>3. CASE input = "text"
    BY <2>3, MadeItems DEF CanShow, Empty, Saved, Back, Shown
  <2>4. CASE input = "name"
    <3>1. Shown(input, Absent) = Text(DefaultName)
      BY <2>4, MadeItems DEF Shown
    <3>2. Back(input, Absent) = Text(DefaultName)
      BY <2>4, <3>1, MadeItems DEF Saved, Back, DefaultName
    <3>3. Saved(input, Empty(input)) = Text(DefaultName)
      BY <2>4, MadeItems DEF Saved, Empty
    <3>4. CanShow(input, Empty(input))
      BY <2>4, MadeItems DEF CanShow, Empty
    <3> QED
      BY <3>2, <3>3, <3>4
  <2>5. CASE input = "fixed"
    BY <2>5, MadeItems DEF CanShow, Empty, Saved, Back, Shown
  <2> QED
    BY <1>2, <2>1, <2>2, <2>3, <2>4, <2>5 DEF Suits
<1>3. \A k \in Keys : Suits(Config[k[1]][k[2]], inputs[k[1]][k[2]])
  BY SectionSuits, KeysAre
<1> QED
  BY <1>1, <1>2, <1>3, EmptyFile, KeysAre DEF FormOK

LEMMA FilledForm ==
  ASSUME NEW json, WellTyped(json), NEW made
  PROVE  FormOK(getConfig(json), json, {}, made)
<1>1. /\ DOMAIN getConfig(json) = Sections
      /\ \A sec \in Sections :
           /\ DOMAIN getConfig(json)[sec] = DOMAIN inputs[sec]
           /\ \A key \in DOMAIN inputs[sec] :
                getConfig(json)[sec][key] = Shown(inputs[sec][key], Item(json, sec, key))
  BY DEF getConfig
<1>2. ASSUME NEW k \in Keys
      PROVE  /\ CanShow(inputs[k[1]][k[2]], getConfig(json)[k[1]][k[2]])
             /\ Saved(inputs[k[1]][k[2]], getConfig(json)[k[1]][k[2]])
                  = Back(inputs[k[1]][k[2]], Item(json, k[1], k[2]))
  <2>1. Suits(Config[k[1]][k[2]], inputs[k[1]][k[2]])
    BY SectionSuits, KeysAre
  <2>2. IsItem(Item(json, k[1], k[2])) /\ Typed(Config[k[1]][k[2]], Item(json, k[1], k[2]))
    BY ItemFits, KeysAre
  <2>3. getConfig(json)[k[1]][k[2]] = Shown(inputs[k[1]][k[2]], Item(json, k[1], k[2]))
    BY <1>1, KeysAre
  <2> QED
    BY <2>1, <2>2, <2>3, ShownFits DEF Back
<1> QED
  BY <1>1, <1>2 DEF FormOK

LEMMA EditedForm ==
  ASSUME NEW held, NEW json, NEW keys, NEW made, FormOK(held, json, keys, made),
         NEW e \in made, e[1] \in Sections, e[2] \in DOMAIN inputs[e[1]],
         CanShow(inputs[e[1]][e[2]], e[3])
  PROVE  FormOK([held EXCEPT ![e[1]][e[2]] = e[3]], json,
                keys \cup {<<e[1], e[2]>>}, made)
<1> DEFINE new == [held EXCEPT ![e[1]][e[2]] = e[3]]
<1>1. DOMAIN held = Sections /\ \A sec \in Sections : DOMAIN held[sec] = DOMAIN inputs[sec]
  BY DEF FormOK
<1>2. /\ DOMAIN new = Sections
      /\ \A sec \in Sections : DOMAIN new[sec] = DOMAIN inputs[sec]
  BY <1>1
<1>3. \A k \in Keys :
        new[k[1]][k[2]] = IF k = <<e[1], e[2]>> THEN e[3] ELSE held[k[1]][k[2]]
  BY <1>1, KeysAre
<1> HIDE DEF new
<1>4. ASSUME NEW k \in Keys
      PROVE  /\ CanShow(inputs[k[1]][k[2]], new[k[1]][k[2]])
             /\ k \in keys \cup {<<e[1], e[2]>>} =>
                  \E d \in made : <<d[1], d[2]>> = k /\ new[k[1]][k[2]] = d[3]
             /\ k \notin keys \cup {<<e[1], e[2]>>} =>
                  Saved(inputs[k[1]][k[2]], new[k[1]][k[2]])
                    = Back(inputs[k[1]][k[2]], Item(json, k[1], k[2]))
  <2>1. CASE k = <<e[1], e[2]>>
    <3>1. new[k[1]][k[2]] = e[3] /\ k[1] = e[1] /\ k[2] = e[2]
      BY <1>3, <2>1
    <3> QED
      BY <2>1, <3>1
  <2>2. CASE k # <<e[1], e[2]>>
    <3>1. new[k[1]][k[2]] = held[k[1]][k[2]]
      BY <1>3, <2>2
    <3> QED
      BY <2>2, <3>1 DEF FormOK
  <2> QED
    BY <2>1, <2>2
<1>5. FormOK(new, json, keys \cup {<<e[1], e[2]>>}, made)
  BY <1>2, <1>4 DEF FormOK
<1> QED
  BY <1>5 DEF new

-----------------------------------------------------------------------------
(* The post.                                                               *)

LEMMA PostedForm ==
  ASSUME NEW held, NEW json, NEW keys, NEW made, FormOK(held, json, keys, made)
  PROVE  BodyOK(saveButtonClick(held), json, keys, made)
<1> DEFINE body == saveButtonClick(held)
<1>1. /\ DOMAIN body = Sections
      /\ \A sec \in Sections : \A key \in DOMAIN inputs[sec] :
           body[sec][key] = Saved(inputs[sec][key], held[sec][key])
  BY DEF saveButtonClick
<1> HIDE DEF body
<1>2. ASSUME NEW k \in Keys
      PROVE  /\ IsItem(body[k[1]][k[2]])
             /\ Written(Config[k[1]][k[2]], body[k[1]][k[2]])
             /\ body[k[1]][k[2]] = Saved(inputs[k[1]][k[2]], held[k[1]][k[2]])
  <2>1. Suits(Config[k[1]][k[2]], inputs[k[1]][k[2]])
    BY SectionSuits, KeysAre
  <2>2. CanShow(inputs[k[1]][k[2]], held[k[1]][k[2]])
    BY DEF FormOK
  <2>3. body[k[1]][k[2]] = Saved(inputs[k[1]][k[2]], held[k[1]][k[2]])
    BY <1>1, KeysAre
  <2> QED
    BY <2>1, <2>2, <2>3, SavedFits
<1>3. BodyOK(body, json, keys, made)
  BY <1>1, <1>2 DEF BodyOK, FormOK
<1> QED
  BY <1>3 DEF body

(* load_config takes it.                                                   *)
LEMMA BodyTaken ==
  ASSUME NEW body, NEW json, NEW keys, NEW made, BodyOK(body, json, keys, made)
  PROVE  WellTyped(body) /\ HasIds(body) /\ ~Crashes(body)
<1>1. ASSUME NEW sec \in Sections, NEW key \in DOMAIN Config[sec]
      PROVE  /\ Item(body, sec, key) = body[sec][key]
             /\ IsItem(body[sec][key]) /\ Written(Config[sec][key], body[sec][key])
  <2>1. <<sec, key>> \in Keys /\ <<sec, key>>[1] = sec /\ <<sec, key>>[2] = key
    BY KeysAre
  <2> QED
    BY <2>1 DEF BodyOK, Item
<1>2. \A key \in {"vid", "pid"} : Item(body, "usb_hid", key).type = "string"
  BY <1>1, HexKeys DEF Written
<1>3. WellTyped(body)
  <2>1. ASSUME NEW sec \in Sections, NEW key \in DOMAIN Config[sec]
        PROVE  /\ IsItem(body[sec][key])
               /\ body[sec][key].type \in {"null", "absent"} \cup
                    IF Config[sec][key] \in {"valueint", "IsNumber"} THEN {"number"} ELSE {"string"}
    BY <1>1 DEF Written
  <2>2. DOMAIN body = Sections
    BY DEF BodyOK
  <2> QED
    BY <1>2, <2>1, <2>2 DEF WellTyped
<1>4. ~Crashes(body)
  <2>1. DOMAIN body = Sections
    BY DEF BodyOK
  <2> QED
    BY <1>1, <2>1 DEF Crashes, Written
<1> QED
  BY <1>2, <1>3, <1>4 DEF HasIds

(* A key that was left alone means what it meant in the file the form was  *)
(* filled from, and its text is too long only if it was.                   *)
LEMMA BodyKeeps ==
  ASSUME NEW body, NEW json, NEW keys, NEW made, BodyOK(body, json, keys, made),
         WellTyped(json), NEW k \in Keys, k \notin keys
  PROVE  /\ Meaning(body)[k[1]][k[2]] = Meaning(json)[k[1]][k[2]]
         /\ TooLong(body, k[1], k[2]) => TooLong(json, k[1], k[2])
<1> DEFINE how   == Config[k[1]][k[2]]
           input == inputs[k[1]][k[2]]
           item  == Item(json, k[1], k[2])
           back  == Back(input, item)
<1>1. HasIds(body) = TRUE /\ HasIds(json) \in BOOLEAN
  <2>1. HasIds(body)
    BY BodyTaken
  <2> QED
    BY <2>1 DEF HasIds
<1>2. Item(body, k[1], k[2]) = back
  BY KeysAre DEF BodyOK, Item
<1>3. Suits(how, input) /\ IsItem(item) /\ Typed(how, item)
  BY SectionSuits, ItemFits, KeysAre
<1>4. how = "hex" /\ ~HasIds(json) => item.text = ""
  <2> SUFFICES ASSUME how = "hex", ~HasIds(json) PROVE item.text = ""
    OBVIOUS
  <2>1. k[1] = "usb_hid" /\ k[2] \in {"vid", "pid"}
    BY HexKeys, KeysAre
  <2>2. Item(json, "usb_hid", "vid").type = Item(json, "usb_hid", "pid").type
    BY DEF WellTyped
  <2>3. item.type # "string"
    BY <2>1, <2>2 DEF HasIds
  <2> QED
    BY <1>3, <2>3 DEF IsItem
<1>5. /\ Meaning(body)[k[1]][k[2]] = Means(input, Read(how, back, TRUE))
      /\ Meaning(json)[k[1]][k[2]] = Means(input, Read(how, item, HasIds(json)))
  BY <1>1, <1>2, MeaningOf
<1>6. how = "valuestring" => (back.fits <=> item.fits \/ item.text = "")
  <2>1. CameBack(input, item, back)
    BY <1>3, RoundTrip
  <2> HIDE DEF how, input, item, back
  <2> QED
    BY <1>3, <2>1 DEF CameBack, Suits
<1>7. TooLong(body, k[1], k[2]) => TooLong(json, k[1], k[2])
  BY <1>2, <1>6 DEF TooLong
<1> HIDE DEF how, input, item, back
<1>8. Means(input, Read(how, back, TRUE)) = Means(input, Read(how, item, HasIds(json)))
  BY <1>1, <1>3, <1>4, SameMeaning DEF back
<1> QED
  BY <1>5, <1>7, <1>8

(* So what it says of any key has a source.                                *)
LEMMA BodySourced ==
  ASSUME NEW body, NEW json, NEW keys, NEW made, NEW first,
         BodyOK(body, json, keys, made), Sourced(json, made, first)
  PROVE  Sourced(body, made, first)
<1>1. WellTyped(body) /\ HasIds(body) /\ WellTyped(json)
  BY BodyTaken DEF Sourced
<1>2. ASSUME NEW k \in Keys
      PROVE  /\ Meaning(body)[k[1]][k[2]] \in
                  {Meaning(first)[k[1]][k[2]], Meaning(<<>>)[k[1]][k[2]]}
                    \cup MadeMeanings(made, k)
             /\ TooLong(body, k[1], k[2]) =>
                  \/ TooLong(first, k[1], k[2])
                  \/ \E e \in made : <<e[1], e[2]>> = k /\ ~e[3].fits
  <2>1. CASE k \notin keys
    <3>1. /\ Meaning(body)[k[1]][k[2]] = Meaning(json)[k[1]][k[2]]
          /\ TooLong(body, k[1], k[2]) => TooLong(json, k[1], k[2])
      BY <1>1, <2>1, BodyKeeps
    <3> QED
      BY <3>1 DEF Sourced
  <2>2. CASE k \in keys
    <3>1. PICK e \in made : /\ <<e[1], e[2]>> = k
                            /\ CanShow(inputs[k[1]][k[2]], e[3])
                            /\ body[k[1]][k[2]] = Saved(inputs[k[1]][k[2]], e[3])
      BY <2>2 DEF BodyOK
    <3>2. Item(body, k[1], k[2]) = Saved(inputs[k[1]][k[2]], e[3])
      BY <3>1, KeysAre DEF BodyOK, Item
    <3>3. HasIds(body) = TRUE
      BY <1>1 DEF HasIds
    <3>4. Meaning(body)[k[1]][k[2]] \in MadeMeanings(made, k)
      <4>1. Meaning(body)[k[1]][k[2]] =
              Means(inputs[k[1]][k[2]],
                    Read(Config[k[1]][k[2]], Saved(inputs[k[1]][k[2]], e[3]), TRUE))
        BY <3>2, <3>3, MeaningOf
      <4>2. e \in {d \in made : <<d[1], d[2]>> = k}
        BY <3>1
      <4> QED
        BY <4>1, <4>2, Zenon DEF MadeMeanings
    <3>5. ASSUME TooLong(body, k[1], k[2]) PROVE ~e[3].fits
      <4>1. Config[k[1]][k[2]] = "valuestring" /\ ~Saved(inputs[k[1]][k[2]], e[3]).fits
        BY <3>2, <3>5 DEF TooLong
      <4>2. Suits(Config[k[1]][k[2]], inputs[k[1]][k[2]])
        BY SectionSuits, KeysAre
      <4>3. inputs[k[1]][k[2]] = "text"
        BY <4>1, <4>2 DEF Suits
      <4>4. Saved(inputs[k[1]][k[2]], e[3]) = e[3]
        BY <4>3 DEF Saved
      <4> QED
        BY <4>1, <4>4
    <3> QED
      BY <3>1, <3>4, <3>5
  <2> QED
    BY <2>1, <2>2
<1> QED
  BY <1>1, <1>2 DEF Sourced

-----------------------------------------------------------------------------
(* The page.  Types and the domains of the tabs' variables; then where     *)
(* everything comes from that a tab, a post or the file holds.             *)
Types ==
  /\ torn \in BOOLEAN /\ saves \in 0..MaxSaves
  /\ typed \subseteq Edits /\ WellTyped(origin)
  /\ page \in [Tabs -> {"asked", "answered", "done"}]
  /\ DOMAIN answer = Tabs /\ DOMAIN form = Tabs
  /\ DOMAIN base = Tabs /\ DOMAIN touched = Tabs

FileOK == Sourced(file, typed, origin) /\ (file # origin => ~Crashes(file))

TabOK(t) ==
  /\ Sourced(answer[t], typed, origin) /\ Sourced(base[t], typed, origin)
  /\ touched[t] \subseteq Keys
  /\ FormOK(form[t], base[t], touched[t], typed)

PostOK(p) ==
  /\ Sourced(p.base, typed, origin)
  /\ BodyOK(p.body, p.base, p.touched, typed)

IInv ==
  /\ Types /\ FileOK
  /\ \A t \in Tabs : TabOK(t)
  /\ \A p \in posts : PostOK(p)

-----------------------------------------------------------------------------
LEMMA InitIInv == Init => IInv
<1> SUFFICES ASSUME Init PROVE IInv
  OBVIOUS
<1>1. WellTyped(origin) /\ file = origin /\ typed = {}
  BY PageAssumption DEF Init
<1>2. Types
  <2>1. /\ DOMAIN answer = Tabs /\ DOMAIN form = Tabs
        /\ DOMAIN base = Tabs /\ DOMAIN touched = Tabs
        /\ page \in [Tabs -> {"asked", "answered", "done"}]
    BY DEF Init
  <2>2. saves \in 0..MaxSaves
    BY PageAssumption DEF Init
  <2>3. torn \in BOOLEAN
    BY Zenon DEF Init
  <2>4. typed \subseteq Edits /\ WellTyped(origin)
    BY <1>1
  <2> QED
    BY <2>1, <2>2, <2>3, <2>4, Zenon DEF Types
<1>3. FileOK
  BY <1>1, FirstSourced DEF FileOK
<1>4. \A t \in Tabs : TabOK(t)
  BY <1>1, EmptySourced, BlankForm DEF Init, TabOK
<1> QED
  BY <1>2, <1>3, <1>4 DEF Init, IInv

(* A tab that a step leaves alone, while more is typed or nothing is.      *)
LEMMA TabStays ==
  ASSUME IInv, NEW t \in Tabs, typed \subseteq typed', origin' = origin,
         answer'[t] = answer[t], form'[t] = form[t], base'[t] = base[t],
         touched'[t] = touched[t]
  PROVE  TabOK(t)'
BY Grows DEF IInv, TabOK

LEMMA PostStays ==
  ASSUME IInv, NEW p \in posts, typed \subseteq typed', origin' = origin
  PROVE  PostOK(p)'
BY Grows DEF IInv, PostOK

LEMMA FileStays ==
  ASSUME IInv, typed \subseteq typed', origin' = origin, file' = file
  PROVE  FileOK'
BY Grows DEF IInv, FileOK

(* A tab that is loaded: blank, or as it was.                              *)
LEMMA LoadedTab ==
  ASSUME IInv, NEW t \in Tabs, Loaded(t), typed' = typed, origin' = origin,
         NEW u \in Tabs
  PROVE  TabOK(u)' /\ page' \in [Tabs -> {"asked", "answered", "done"}]
<1> USE DEF IInv, Types
<1>1. page' \in [Tabs -> {"asked", "answered", "done"}]
  BY DEF Loaded
<1>2. CASE u # t
  BY <1>2, TabStays DEF Loaded
<1>3. CASE u = t
  <2>1. answer'[u] = <<>>
    BY <1>3 DEF Loaded
  <2>2. Sourced(answer'[u], typed', origin')
    BY <2>1, EmptySourced
  <2>3. CASE UNCHANGED <<form, base, touched>>
    <3>1. /\ Sourced(base[u], typed, origin) /\ touched[u] \subseteq Keys
          /\ FormOK(form[u], base[u], touched[u], typed)
      BY DEF TabOK
    <3>2. /\ Sourced(base'[u], typed', origin') /\ touched'[u] \subseteq Keys
          /\ FormOK(form'[u], base'[u], touched'[u], typed')
      BY <2>3, <3>1
    <3> HIDE DEF IInv, Types
    <3> QED
      BY <1>1, <2>2, <3>2, Zenon DEF TabOK
  <2>4. CASE /\ form' = [form EXCEPT ![t] = blank]
             /\ base' = [base EXCEPT ![t] = <<>>]
             /\ touched' = [touched EXCEPT ![t] = {}]
    <3>1. form'[u] = blank /\ base'[u] = <<>> /\ touched'[u] = {}
      BY <1>3, <2>4
    <3>2. FormOK(blank, <<>>, {}, typed')
      BY BlankForm
    <3>3. FormOK(form'[u], base'[u], touched'[u], typed')
      BY <3>1, <3>2, Zenon
    <3>4. Sourced(base'[u], typed', origin') /\ touched'[u] \subseteq Keys
      BY <2>1, <2>2, <3>1
    <3> HIDE DEF IInv, Types
    <3> QED
      BY <1>1, <2>2, <3>3, <3>4, Zenon DEF TabOK
  <2> QED
    BY <2>3, <2>4 DEF Loaded
<1> QED
  BY <1>1, <1>2, <1>3

-----------------------------------------------------------------------------
LEMMA OpenIInv == ASSUME IInv, NEW t \in Tabs, Open(t) PROVE IInv'
<1> USE DEF Open, server
<1>1. \A u \in Tabs : TabOK(u)'
  BY LoadedTab
<1>2. Types'
  BY LoadedTab DEF IInv, Types, Loaded
<1> QED
  BY <1>1, <1>2, FileStays, PostStays DEF IInv

LEMMA AnsweredIInv == ASSUME IInv, NEW t \in Tabs, Answered(t) PROVE IInv'
<1> USE DEF Answered, server
<1>1. ASSUME NEW u \in Tabs PROVE TabOK(u)'
  <2>1. CASE u # t
    BY <2>1, TabStays DEF IInv, Types
  <2>2. CASE u = t
    <3>1. answer'[u] = file
      BY <2>2 DEF IInv, Types
    <3> QED
      BY <3>1 DEF IInv, TabOK, FileOK
  <2> QED
    BY <2>1, <2>2
<1>2. Types'
  BY DEF IInv, Types
<1> QED
  BY <1>1, <1>2, FileStays, PostStays DEF IInv

LEMMA FillIInv == ASSUME IInv, NEW t \in Tabs, Fill(t) \/ FillFails(t) PROVE IInv'
<1> USE DEF Fill, FillFails, server
<1>1. ASSUME NEW u \in Tabs PROVE TabOK(u)'
  <2>1. CASE FillFails(t) \/ u # t
    BY <2>1, TabStays DEF IInv, Types
  <2>2. CASE Fill(t) /\ u = t
    <3>1. /\ form'[u] = getConfig(answer[u])
          /\ base'[u] = answer[u] /\ answer'[u] = answer[u] /\ touched'[u] = {}
      BY <2>2 DEF IInv, Types
    <3>2. Sourced(answer[u], typed, origin)
      BY DEF IInv, TabOK
    <3>3. FormOK(getConfig(answer[u]), answer[u], {}, typed)
      BY <3>2, FilledForm DEF Sourced
    <3> QED
      BY <2>2, <3>1, <3>2, <3>3 DEF TabOK
  <2> QED
    BY <2>1, <2>2
<1>2. Types'
  BY DEF IInv, Types
<1> QED
  BY <1>1, <1>2, FileStays, PostStays DEF IInv

LEMMA EditIInv == ASSUME IInv, NEW t \in Tabs, NEW e \in Edits, Edit(t, e) PROVE IInv'
<1> USE DEF Edit, server
<1>1. /\ e[1] \in Sections /\ e[2] \in DOMAIN inputs[e[1]]
      /\ CanShow(inputs[e[1]][e[2]], e[3])
  BY PageAssumption
<1>2. typed \subseteq typed' /\ e \in typed'
  OBVIOUS
<1>3. ASSUME NEW u \in Tabs PROVE TabOK(u)'
  <2>1. CASE u # t
    BY <1>2, <2>1, TabStays DEF IInv, Types
  <2>2. CASE u = t
    <3>1. /\ form'[u] = [form[u] EXCEPT ![e[1]][e[2]] = e[3]]
          /\ touched'[u] = touched[u] \cup {<<e[1], e[2]>>}
      BY <2>2 DEF IInv, Types
    <3>2. FormOK(form[u], base[u], touched[u], typed')
      BY <1>2, Grows DEF IInv, TabOK
    <3>3. FormOK(form'[u], base[u], touched'[u], typed')
      BY <1>1, <1>2, <3>1, <3>2, EditedForm
    <3>4. Sourced(answer[u], typed', origin) /\ Sourced(base[u], typed', origin)
      BY <1>2, Grows DEF IInv, TabOK
    <3>5. touched'[u] \subseteq Keys
      BY <1>1, <3>1, KeysAre, SectionSuits DEF IInv, TabOK
    <3> QED
      BY <3>3, <3>4, <3>5 DEF TabOK
  <2> QED
    BY <2>1, <2>2
<1>4. Types'
  BY DEF IInv, Types
<1> QED
  BY <1>2, <1>3, <1>4, FileStays, PostStays DEF IInv

LEMMA SaveIInv == ASSUME IInv, NEW t \in Tabs, Save(t) PROVE IInv'
<1> USE DEF Save, server
<1>1. \A u \in Tabs : TabOK(u)'
  BY LoadedTab
<1>2. Types'
  <2>1. saves' \in 0..MaxSaves
    BY PageAssumption DEF IInv, Types
  <2> QED
    BY <2>1, LoadedTab DEF IInv, Types, Loaded
<1>3. ASSUME NEW p \in posts' PROVE PostOK(p)'
  <2>1. CASE p \in posts
    BY <2>1, PostStays
  <2>2. CASE p \notin posts
    <3>1. /\ p.body = saveButtonClick(form[t]) /\ p.base = base[t]
          /\ p.touched = touched[t]
      BY <2>2
    <3>2. Sourced(base[t], typed, origin) /\ FormOK(form[t], base[t], touched[t], typed)
      BY DEF IInv, TabOK
    <3>3. BodyOK(saveButtonClick(form[t]), base[t], touched[t], typed)
      BY <3>2, PostedForm
    <3> QED
      BY <3>1, <3>2, <3>3 DEF PostOK
  <2> QED
    BY <2>1, <2>2
<1> QED
  BY <1>1, <1>2, <1>3, FileStays DEF IInv

LEMMA PostedIInv ==
  ASSUME IInv, NEW p \in posts, Arrives(p) \/ Torn(p) \/ Lost(p) PROVE IInv'
<1> USE DEF Arrives, Torn, Lost, Posted, tabs
<1>1. FileOK'
  <2>1. CASE Arrives(p)
    <3>1. Sourced(p.body, typed, origin)
      BY BodySourced DEF IInv, PostOK
    <3>2. ~Crashes(p.body)
      BY BodyTaken DEF IInv, PostOK
    <3> QED
      BY <2>1, <3>1, <3>2 DEF FileOK
  <2>2. CASE Torn(p)
    BY <2>2, EmptySourced, EmptyFile DEF FileOK
  <2>3. CASE Lost(p)
    BY <2>3, FileStays
  <2> QED
    BY <2>1, <2>2, <2>3
<1>2. \A u \in Tabs : TabOK(u)'
  BY TabStays
<1>3. Types'
  BY DEF IInv, Types
<1> QED
  BY <1>1, <1>2, <1>3, PostStays DEF IInv

LEMMA StepIInv == ASSUME IInv, [Next]_pageVars PROVE IInv'
<1>1. CASE UNCHANGED pageVars
  BY <1>1 DEF pageVars, IInv, Types, FileOK, TabOK, PostOK
<1> QED
  BY <1>1, OpenIInv, AnsweredIInv, FillIInv, EditIInv, SaveIInv, PostedIInv DEF Next

-----------------------------------------------------------------------------
(* The invariant of the page: every file, answer, form and post is made of *)
(* what was there in the beginning, of nothing, and of what was typed.     *)
THEOREM Invariance == Spec => []IInv
<1>1. Init => IInv
  BY InitIInv
<1>2. IInv /\ [Next]_pageVars => IInv'
  BY StepIInv
<1> QED
  BY <1>1, <1>2, PTL DEF Spec

(* Every input holds what it can hold, and whatever is sent or saved has   *)
(* for each key the type that it should have.                              *)
THEOREM TypeCorrect == Spec => []TypeOK
<1>1. ASSUME IInv PROVE TypeOK
  <2>1. \A t \in Tabs :
          /\ WellTyped(answer[t]) /\ touched[t] \subseteq Keys
          /\ \A k \in Keys : CanShow(inputs[k[1]][k[2]], form[t][k[1]][k[2]])
    BY <1>1 DEF IInv, TabOK, Sourced, FormOK
  <2>2. \A p \in posts : WellTyped(p.body)
    BY <1>1, BodyTaken DEF IInv, PostOK
  <2>3. WellTyped(file)
    BY <1>1 DEF IInv, FileOK, Sourced
  <2> QED
    BY <1>1, <2>1, <2>2, <2>3 DEF IInv, Types, TypeOK
<1> QED
  BY <1>1, Invariance, PTL

(* For any files, edits and number of tabs, a post leaves the meaning of   *)
(* every key alone that the user left alone in its form.                   *)
THEOREM Kept == Spec => []KeptAsLoaded
<1>1. ASSUME IInv PROVE KeptAsLoaded
  <2> SUFFICES ASSUME NEW p \in posts, NEW k \in Keys, k \notin p.touched
               PROVE  Meaning(p.body)[k[1]][k[2]] = Meaning(p.base)[k[1]][k[2]]
    BY DEF KeptAsLoaded
  <2> QED
    BY <1>1, BodyKeeps DEF IInv, PostOK, Sourced
<1> QED
  BY <1>1, Invariance, PTL

(* However tabs, posts and deaths follow each other, the file never gives  *)
(* a key a meaning that it had nowhere and that nobody typed for it.       *)
THEOREM Nothing == Spec => []NothingInvented
<1>1. ASSUME IInv PROVE NothingInvented
  <2>1. \A k : MadeMeanings(typed, k) = TypedMeanings(k)
    BY DEF MadeMeanings, TypedMeanings
  <2> QED
    BY <1>1, <2>1 DEF IInv, FileOK, Sourced, NothingInvented
<1> QED
  BY <1>1, Invariance, PTL

(* The page never writes a file in which load_config misses a key, nor one *)
(* with a text that is too long where none was and none was typed.         *)
THEOREM CanLoad == Spec => []Loadable
<1>1. ASSUME IInv PROVE Loadable
  BY <1>1 DEF IInv, FileOK, Sourced, Loadable
<1> QED
  BY <1>1, Invariance, PTL
=============================================================================
