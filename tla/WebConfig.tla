----------------------------- MODULE WebConfig -----------------------------
(***************************************************************************)
(* config.json and what depends on it: the handler of POST /setConfig      *)
(* (webserver.c), save_file (utils.c), load_config (config.c), the device  *)
(* settings (device_settings.c), and main(), which loads the file once at  *)
(* each start of the process.                                              *)
(*                                                                         *)
(* The web server has one thread.  It is called for each piece of an       *)
(* upload, so uploads on several connections interleave; after the last    *)
(* piece the handler saves, loads and applies without a break, but the     *)
(* process may die between any two of these steps.  A death of the process *)
(* keeps what it wrote.                                                    *)
(*                                                                         *)
(* A posted text is a sequence of pieces, each tagged with the text it     *)
(* belongs to.  A configuration is named by its text; "zero" is the zeroed *)
(* Config that load_config returns for a file it cannot read or parse.     *)
(***************************************************************************)
EXTENDS Naturals, Sequences

CONSTANTS
  Posts,        (* connections that can upload at one time                 *)
  Texts,        (* texts that are posted                                   *)
  Complete,     (* those that hold every key load_config dereferences      *)
  Incomplete,   (* JSON without one of these keys; the rest is not JSON    *)
  Overlong,     (* complete ones with a string too long for its array      *)
  WithLan,      (* those with a static address for the wired network       *)
  WithWifi,     (* those with the name and password of a wireless network  *)
  Ssid,         (* the name that each of these has                         *)
  StaticWifi,   (* those with an address for it and without DHCP           *)
  Empty,        (* the texts of no bytes                                   *)
  None          (* no upload; no profile; no static address                *)

ASSUME WebConfigAssumption ==
  /\ Complete \subseteq Texts /\ Incomplete \subseteq Texts
  /\ Empty \subseteq Texts
  /\ Complete \cap Incomplete = {} /\ Overlong \subseteq Complete
  /\ Empty \cap (Complete \cup Incomplete) = {}
  /\ WithLan \subseteq Complete /\ WithWifi \subseteq Complete
  /\ DOMAIN Ssid = WithWifi /\ StaticWifi \subseteq WithWifi
  /\ None \notin Texts /\ "zero" \notin Texts

VARIABLES
  alive,      (* the process runs                                          *)
  running,    (* the configuration main() loaded                           *)
  file,       (* config.json                                               *)
  upload,     (* PostData of each connection: the text and what has come   *)
  web_pc,     (* where the web server's thread is                          *)
  web_post,   (* the connection it works for                               *)
  cfg,        (* cfg of handle_set_config                                  *)
  hostname,   (* the configuration the host name comes from                *)
  lan,        (* the configuration the address of the wired profile comes  *)
              (* from; None if it has no address or is not there           *)
  wifi,       (* the profile of each wireless network: the configurations  *)
              (* its password and its static address come from             *)
  undeleted   (* history: the profiles, "wifi" and "lan", that the present *)
              (* request could not delete                                  *)

Ssids == {Ssid[t] : t \in WithWifi}

netVars == <<hostname, lan, wifi, undeleted>>
webVars == <<web_pc, web_post, cfg>>
cfgVars == <<alive, running, file, upload, web_pc, web_post, cfg, hostname, lan,
             wifi, undeleted>>

Content(t) == IF t \in Empty THEN <<>> ELSE <<<<t, 1>>, <<t, 2>>>>

IsFile(text, T) == \E t \in T : text = Content(t)

(* load_config: a NULL dereference on a missing key; strcpy past the end   *)
(* of an array, which may end the process or not; and the zero             *)
(* configuration for no file, an empty one, or one that is not JSON.       *)
LoadCrashes(text) == IsFile(text, Incomplete)

LoadMayCrash(text) == IsFile(text, Incomplete \cup Overlong)

(* What a text that does not parse begins with, taken for a configuration. *)
load_config_Unparsed(text) == IF text = <<>> THEN "zero" ELSE text[1][1]

load_config(text) ==
  IF IsFile(text, Complete) THEN text[1][1] ELSE "zero"

(* The file may be there before the first start.                           *)
Init ==
  /\ alive = FALSE
  /\ running = "zero"
  /\ file \in {Content(t) : t \in Texts}
  /\ upload = [p \in Posts |-> None]
  /\ web_pc = "idle"
  /\ web_post = None
  /\ cfg = "zero"
  /\ hostname = None
  /\ lan = None
  /\ wifi = [s \in Ssids |-> None]
  /\ undeleted = {}

-----------------------------------------------------------------------------
(* main() *)

(* load_config, the threads, and the web server.                           *)
Boot ==
  /\ ~alive
  /\ ~LoadCrashes(file)
  /\ alive' = TRUE
  /\ running' = load_config(file)
  /\ UNCHANGED <<file, upload, webVars, netVars>>

(* load_config crashes; the service manager starts the process again.      *)
BootCrashes == ~alive /\ LoadMayCrash(file) /\ UNCHANGED cfgVars

(* The end of the process, wherever its threads are.                       *)
Ends ==
  /\ alive' = FALSE
  /\ upload' = [p \in Posts |-> None]
  /\ web_pc' = "idle"
  /\ web_post' = None
  /\ cfg' = "zero"
  /\ undeleted' = {}
  /\ UNCHANGED <<running, file, hostname, lan, wifi>>

ProcessDies == alive /\ Ends

-----------------------------------------------------------------------------
(* handle_reboot, handle_set_config *)

Idle == alive /\ web_pc = "idle"

handle_reboot == Idle /\ Ends

(* The first call for a request allocates its PostData.                    *)
PostStart(p, t) ==
  /\ Idle
  /\ upload[p] = None
  /\ upload' = [upload EXCEPT ![p] = [text |-> t, data |-> <<>>]]
  /\ UNCHANGED <<alive, running, file, webVars, netVars>>

More(p) ==
  /\ upload[p] # None
  /\ Len(upload[p].data) < Len(Content(upload[p].text))

NextPiece(p) == Content(upload[p].text)[Len(upload[p].data) + 1]

(* One PostData for all connections.                                       *)
PostPiece_Shared(p) ==
  /\ Idle
  /\ More(p)
  /\ upload' = [q \in Posts |->
                  IF upload[q] = None THEN None
                  ELSE [upload[q] EXCEPT !.data = Append(@, NextPiece(p))]]
  /\ UNCHANGED <<alive, running, file, webVars, netVars>>

(* A call with a piece of the body appends it.                             *)
PostPiece(p) ==
  /\ Idle
  /\ More(p)
  /\ upload' = [upload EXCEPT ![p].data = Append(@, NextPiece(p))]
  /\ UNCHANGED <<alive, running, file, webVars, netVars>>

(* The browser leaves before the last call, as it does when the page is    *)
(* loaded again (script.js:171): the upload is never saved.                *)
PostAborts(p) ==
  /\ Idle
  /\ upload[p] # None
  /\ upload' = [upload EXCEPT ![p] = None]
  /\ UNCHANGED <<alive, running, file, webVars, netVars>>

(* The last call: save_file opens the file, which truncates it ...         *)
SaveOpens(p) ==
  /\ Idle
  /\ upload[p] # None /\ ~More(p)
  /\ file' = <<>>
  /\ web_pc' = "write"
  /\ web_post' = p
  /\ UNCHANGED <<alive, running, upload, cfg, netVars>>

(* ... or cannot open it, which the handler does not notice ...            *)
SaveFails(p) ==
  /\ Idle
  /\ upload[p] # None /\ ~More(p)
  /\ web_pc' = "load"
  /\ web_post' = p
  /\ UNCHANGED <<alive, running, file, upload, cfg, netVars>>

(* ... writes all the data, or as much as there is space for ...           *)
SaveWrites(n) ==
  /\ alive
  /\ web_pc = "write"
  /\ n \in 0..Len(upload[web_post].data)
  /\ file' = SubSeq(upload[web_post].data, 1, n)
  /\ web_pc' = "load"
  /\ UNCHANGED <<alive, running, upload, web_post, cfg, netVars>>

(* ... and the file is loaded ...                                          *)
Load ==
  /\ alive
  /\ web_pc = "load"
  /\ ~LoadCrashes(file)
  /\ cfg' = load_config(file)
  /\ web_pc' = "hostname"
  /\ UNCHANGED <<alive, running, file, upload, web_post, netVars>>

(* ... which may end the process.                                          *)
LoadDies ==
  /\ alive
  /\ web_pc = "load"
  /\ LoadMayCrash(file)
  /\ Ends

(* The steps of apply_device_settings.                                     *)
ApplyStep(from, to) ==
  /\ alive
  /\ web_pc = from
  /\ web_pc' = to
  /\ UNCHANGED <<alive, running, file, upload, web_post, cfg>>

(* apply_hostname: no name; or hostnamectl sets it, or fails.              *)
Hostname ==
  /\ ApplyStep("hostname", "wifi")
  /\ hostname' \in {hostname} \cup ({cfg} \cap Complete)
  /\ UNCHANGED <<lan, wifi, undeleted>>

(* The profile of the network of cfg, and a new value for it.              *)
Present == wifi[Ssid[cfg]]

Profile(new) ==
  wifi' = [wifi EXCEPT ![Ssid[cfg]] = new] /\ UNCHANGED <<hostname, lan>>

(* apply_wifi_settings: no settings; or the profile of that name, and no   *)
(* other, is deleted, or stays, which the code does not look at ...        *)
WifiSkips ==
  ApplyStep("wifi", "lan") /\ cfg \notin WithWifi /\ UNCHANGED netVars

WifiDeletes_Not ==
  ApplyStep("wifi", "connect") /\ cfg \in WithWifi /\ UNCHANGED netVars

WifiDeletes ==
  /\ ApplyStep("wifi", "connect")
  /\ cfg \in WithWifi
  /\ \/ Profile(None) /\ UNCHANGED undeleted
     \/ /\ Present # None
        /\ undeleted' = undeleted \cup {"wifi"}
        /\ UNCHANGED <<hostname, lan, wifi>>

(* ... and made anew by connecting, with an address from DHCP; one that is *)
(* still there may be used again, with its password and address or not ... *)
NewProfile ==
  \E secret \in {cfg} \cup (IF Present = None THEN {} ELSE {Present.secret}),
     address \in {None} \cup (IF Present = None THEN {} ELSE {Present.address}) :
    Profile([secret |-> secret, address |-> address])

WifiConnects ==
  ApplyStep("connect", "modify") /\ NewProfile /\ UNCHANGED undeleted

(* Trying again, from the deletion, until it is connected.                 *)
WifiFails_Retries == ApplyStep("connect", "wifi") /\ UNCHANGED netVars

(* ... which may fail, with a new profile left or not ...                  *)
WifiFails ==
  /\ ApplyStep("connect", "lan")
  /\ NewProfile \/ UNCHANGED <<hostname, lan, wifi>>
  /\ UNCHANGED undeleted

(* ... and then, if there is an address, set to it or to DHCP, with no     *)
(* look at the result, and brought down and up.                            *)
WifiModifies ==
  /\ ApplyStep("modify", "lan")
  /\ \E address \in {Present.address, IF cfg \in StaticWifi THEN cfg ELSE None} :
       Profile([Present EXCEPT !.address = address])
  /\ UNCHANGED undeleted

(* apply_lan_settings: no address; or the profile is deleted, added and    *)
(* set to its address, with no look at any result.                         *)
LanSkips ==
  ApplyStep("lan", "reply") /\ cfg \notin WithLan /\ UNCHANGED netVars

LanApplies ==
  /\ ApplyStep("lan", "reply")
  /\ cfg \in WithLan
  /\ \/ lan' \in {cfg, None} /\ UNCHANGED undeleted
     \/ lan' \in {lan, cfg, None} /\ undeleted' = undeleted \cup {"lan"}
  /\ UNCHANGED <<hostname, wifi>>

(* PostData is freed and {"status":"ok"} is queued, whatever happened.     *)
Reply ==
  /\ alive
  /\ web_pc = "reply"
  /\ upload' = [upload EXCEPT ![web_post] = None]
  /\ web_pc' = "idle"
  /\ web_post' = None
  /\ cfg' = "zero"
  /\ undeleted' = {}
  /\ UNCHANGED <<alive, running, file, hostname, lan, wifi>>

-----------------------------------------------------------------------------
Upload(p) ==
  \/ \E t \in Texts : PostStart(p, t)
  \/ PostPiece(p) \/ PostAborts(p) \/ SaveOpens(p) \/ SaveFails(p)

HandlerStep ==
  \/ \E n \in 0..2 : SaveWrites(n)
  \/ Load \/ LoadDies
  \/ Hostname
  \/ WifiSkips \/ WifiDeletes \/ WifiConnects \/ WifiFails \/ WifiModifies
  \/ LanSkips \/ LanApplies
  \/ Reply

Next ==
  \/ Boot \/ BootCrashes \/ ProcessDies \/ handle_reboot
  \/ \E p \in Posts : Upload(p)
  \/ HandlerStep

Spec == Init /\ [][Next]_cfgVars

(* The handler, once the upload is complete, runs on.  No browser is fair. *)
FairSpec == Spec /\ WF_cfgVars(HandlerStep)

-----------------------------------------------------------------------------
(* Every variable has its type.                                            *)
TypeOK ==
  /\ alive \in BOOLEAN
  /\ running \in Complete \cup {"zero"}
  /\ cfg \in Complete \cup {"zero"}
  /\ file \in Seq(Texts \X {1, 2})
  /\ \A p \in Posts :
       \/ upload[p] = None
       \/ upload[p] \in [text : Texts, data : Seq(Texts \X {1, 2})]
  /\ web_pc \in {"idle", "write", "load", "hostname", "wifi", "connect",
                 "modify", "lan", "reply"}
  /\ web_post \in Posts \cup {None}
  /\ lan \in WithLan \cup {None}
  /\ hostname \in Complete \cup {None}
  /\ \A s \in Ssids :
       \/ wifi[s] = None
       \/ wifi[s] \in [secret : WithWifi, address : StaticWifi \cup {None}]
  /\ undeleted \subseteq {"wifi", "lan"}

Begins(s, t) == Len(s) <= Len(t) /\ s = SubSeq(t, 1, Len(s))

(* config.json is always the beginning of one posted text: uploads that    *)
(* arrive in pieces at the same time, and deaths between truncating and    *)
(* writing, never leave a mixture of two.                                  *)
OneText == \E t \in Texts : Begins(file, Content(t))

(* When the handler answers, the profile of each network that the file     *)
(* configures, if the old one could be deleted, was made from that file or *)
(* is missing, however the save and the other commands went: it has no     *)
(* password and no address of another configuration, nor a static address  *)
(* that the file does not want.                                            *)
Applied ==
  web_pc = "reply" =>
    LET c == load_config(file)
    IN  /\ c \in WithLan /\ "lan" \notin undeleted => lan \in {c, None}
        /\ c \in WithWifi /\ "wifi" \notin undeleted =>
             LET profile == wifi[Ssid[c]]
             IN  profile = None \/ /\ profile.secret = c
                                   /\ profile.address \in {None} \cup ({c} \cap StaticWifi)

(* A request whose last call came is answered, or the process ends.        *)
HandlerReturns == web_pc # "idle" ~> web_pc = "idle"

(* A process that starts with a configuration that has a static address    *)
(* for the wired network sets it up, as the documentation says: "Static    *)
(* IP/Wi-Fi setup on boot via config file" (README.md:18).                 *)
SetUpOnBoot == (alive /\ running \in WithLan) ~> (lan # None \/ ~alive)
=============================================================================
