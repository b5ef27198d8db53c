----------------------------- MODULE ConfigPage -----------------------------
(***************************************************************************)
(* The page in the tabs of one or more browsers, over one config.json.     *)
(* When a tab is opened it asks for the file (getConfig), is answered, and *)
(* fills its form; the user changes inputs at any time; a save posts what  *)
(* the form holds and loads the page again.  So a form may be older than   *)
(* the file, or never filled, and posts may come late, torn or not at all. *)
(***************************************************************************)
EXTENDS ConfigFile

CONSTANTS
  Handwritten,  (* files the device may be set up with, with no item of    *)
                (* another type than its key is meant to have              *)
  Edits,        (* what a user may put into one input: <<sec, key, shown>> *)
  Tabs,
  MaxSaves      (* bound of the model: saves                               *)

ASSUME PageAssumption ==
  /\ MaxSaves \in Nat
  /\ \A json \in Handwritten : WellTyped(json)
  /\ \A e \in Edits :
       /\ e[1] \in Sections /\ e[2] \in DOMAIN inputs[e[1]]
       /\ CanShow(inputs[e[1]][e[2]], e[3])

VARIABLES
  file,     (* config.json                                                 *)
  torn,     (* its text is cut off, or empty: load_config makes of it what *)
            (* it makes of a file without sections                         *)
  page,     (* what a tab waits for: "asked", "answered", or "done"        *)
  answer,   (* the file as it was when the server answered                 *)
  form,     (* what is in the inputs of a tab                              *)
  posts,    (* posts on their way                                          *)
  saves,    (* saves so far                                                *)
  origin,   (* history: the file the device was set up with                *)
  typed,    (* history: what users have put into inputs                    *)
  base,     (* history: the file that a form was filled from               *)
  touched   (* history: the keys that were changed in it since             *)

server    == <<file, torn, origin>>
tabs      == <<page, answer, form, base, touched>>
pageVars  == <<file, torn, page, answer, form, posts, saves, origin, typed,
               base, touched>>

Init ==
  /\ file \in Handwritten /\ torn = FALSE
  /\ page = [t \in Tabs |-> "asked"]
  /\ answer = [t \in Tabs |-> <<>>]
  /\ form = [t \in Tabs |-> blank]
  /\ posts = {} /\ saves = 0
  /\ origin = file /\ typed = {}
  /\ base = [t \in Tabs |-> <<>>]
  /\ touched = [t \in Tabs |-> {}]

-----------------------------------------------------------------------------
(* The page is loaded, and asks.  Its form is blank, unless the browser    *)
(* puts back what was in it.                                               *)
Loaded(t) ==
  /\ page' = [page EXCEPT ![t] = "asked"]
  /\ answer' = [answer EXCEPT ![t] = <<>>]
  /\ \/ /\ form' = [form EXCEPT ![t] = blank]
        /\ base' = [base EXCEPT ![t] = <<>>]
        /\ touched' = [touched EXCEPT ![t] = {}]
     \/ UNCHANGED <<form, base, touched>>

Open(t) == Loaded(t) /\ UNCHANGED <<server, posts, saves, typed>>

(* handle_get_config reads the file.                                       *)
Answered(t) ==
  /\ page[t] = "asked"
  /\ ~torn
  /\ page' = [page EXCEPT ![t] = "answered"]
  /\ answer' = [answer EXCEPT ![t] = file]
  /\ UNCHANGED <<server, form, base, touched, posts, saves, typed>>

(* The second then() of getConfig: what was typed meanwhile is lost.       *)
Fill(t) ==
  /\ page[t] = "answered"
  /\ page' = [page EXCEPT ![t] = "done"]
  /\ form' = [form EXCEPT ![t] = getConfig(answer[t])]
  /\ base' = [base EXCEPT ![t] = answer[t]]
  /\ touched' = [touched EXCEPT ![t] = {}]
  /\ UNCHANGED <<server, answer, posts, saves, typed>>

(* catch(): no answer, or a text that is not JSON.  The form stays.        *)
FillFails(t) ==
  /\ page[t] = "asked"
  /\ page' = [page EXCEPT ![t] = "done"]
  /\ UNCHANGED <<server, answer, form, base, touched, posts, saves, typed>>

(* The user.                                                               *)
Edit(t, e) ==
  /\ form' = [form EXCEPT ![t][e[1]][e[2]] = e[3]]
  /\ touched' = [touched EXCEPT ![t] = @ \cup {<<e[1], e[2]>>}]
  /\ typed' = typed \cup {e}
  /\ UNCHANGED <<server, page, answer, base, posts, saves>>

(* saveButtonClick posts, and does not wait for an answer.                 *)
Save(t) ==
  /\ saves < MaxSaves
  /\ saves' = saves + 1
  /\ posts' = posts \cup {[no |-> saves, body |-> saveButtonClick(form[t]),
                           base |-> base[t], touched |-> touched[t]]}
  /\ Loaded(t)
  /\ UNCHANGED <<server, typed>>

-----------------------------------------------------------------------------
(* A post comes to its end: it is saved, or the process dies or the disk   *)
(* is full in the middle of it, or it never arrives (the reload ends it,   *)
(* the connection is lost, the file cannot be opened).                     *)
Posted(p) ==
  /\ posts' = posts \ {p}
  /\ UNCHANGED <<tabs, saves, origin, typed>>

Arrives(p) == Posted(p) /\ file' = p.body /\ torn' = FALSE
Torn(p)    == Posted(p) /\ file' = <<>> /\ torn' = TRUE
Lost(p)    == Posted(p) /\ UNCHANGED <<file, torn>>

-----------------------------------------------------------------------------
Next ==
  \/ \E t \in Tabs :
       \/ Open(t) \/ Answered(t) \/ Fill(t) \/ FillFails(t) \/ Save(t)
       \/ \E e \in Edits : Edit(t, e)
  \/ \E p \in posts : Arrives(p) \/ Torn(p) \/ Lost(p)

Spec == Init /\ [][Next]_pageVars

-----------------------------------------------------------------------------
Keys == UNION {{sec} \X DOMAIN inputs[sec] : sec \in Sections}

(* Every variable has its type: an input holds what it can hold, and every *)
(* file, answer and post has for each key the type that it should have.    *)
TypeOK ==
  /\ WellTyped(file) /\ torn \in BOOLEAN
  /\ page \in [Tabs -> {"asked", "answered", "done"}]
  /\ \A t \in Tabs :
       /\ WellTyped(answer[t])
       /\ \A k \in Keys : CanShow(inputs[k[1]][k[2]], form[t][k[1]][k[2]])
       /\ touched[t] \subseteq Keys
  /\ \A p \in posts : WellTyped(p.body)
  /\ saves \in 0..MaxSaves
  /\ typed \subseteq Edits

(* What is posted gives each key that the user left alone the meaning that *)
(* it had in the file the form was filled from, or has in an empty file if *)
(* it never was: through the form, parseInt, the null that an empty field  *)
(* becomes, and the defaults of both sides.                                *)
KeptAsLoaded ==
  \A p \in posts : \A k \in Keys \ p.touched :
    Meaning(p.body)[k[1]][k[2]] = Meaning(p.base)[k[1]][k[2]]

(* Forms that are stale or were never filled, several tabs, posts that     *)
(* overtake each other and torn files bring back old settings or defaults, *)
(* and never one that nobody made: whatever the file says of a key is what *)
(* it said in the beginning, what an empty file says, or what a user typed *)
(* for this key.                                                           *)
TypedMeanings(k) ==
  LET input == inputs[k[1]][k[2]]
  IN  {Means(input, Read(Config[k[1]][k[2]], Saved(input, e[3]), TRUE)) :
         e \in {d \in typed : <<d[1], d[2]>> = k}}

NothingInvented ==
  \A k \in Keys :
    Meaning(file)[k[1]][k[2]] \in
      {Meaning(origin)[k[1]][k[2]], Meaning(<<>>)[k[1]][k[2]]} \cup TypedMeanings(k)

(* Once the page has written the file, load_config finds every key that it *)
(* dereferences, and a text it cannot hold is one that was there from the  *)
(* beginning or that a user typed: a save never lets the next start crash  *)
(* on something else.                                                      *)
Loadable ==
  file # origin =>
    /\ ~Crashes(file)
    /\ \A k \in Keys :
         TooLong(file, k[1], k[2]) =>
           \/ TooLong(origin, k[1], k[2])
           \/ \E e \in typed : <<e[1], e[2]>> = k /\ ~e[3].fits
=============================================================================
