------------------------------ MODULE Startup ------------------------------
(***************************************************************************)
(* The life of the process: the service manager starts it                  *)
(* (nodebridge.service), main() loads config.json, starts what the file    *)
(* asks for and waits in start_webserver, and the page writes a new file   *)
(* for the next start.  The threads that main() creates run on their own:  *)
(* the TCP server binds its port while main() goes on to bind the port of  *)
(* the page, and the reader opens its device.                              *)
(*                                                                         *)
(* After the process is up it does nothing here but lose its device, be    *)
(* killed or be rebooted, and have its file replaced; what its threads do  *)
(* then is in the modules of the components, how the page makes a file is  *)
(* in ConfigPage, and how a death tears one in WebConfig.                  *)
(***************************************************************************)
EXTENDS ConfigFile

CONSTANTS
  Files,        (* what config.json can hold; <<>> stands for a file that  *)
                (* is missing, empty or not JSON                           *)
  StartLimit    (* starts in a row the service manager allows              *)

ASSUME StartupAssumption ==
  /\ StartLimit \in Nat \ {0}
  /\ \A json \in Files : WellTyped(json)

VARIABLES
  unit,      (* the service is "active", or "failed" and not started again *)
  starts,    (* starts since it last ran for a while                       *)
  main_pc,   (* where main() is                                            *)
  cfg,       (* cfg of main()                                              *)
  tcp_pc,    (* where tcp_server_thread is                                 *)
  reader,    (* where the reader's thread is                               *)
  plugged,   (* the device that the file names is there                    *)
  file       (* config.json                                                *)

unitVars  == <<unit, starts>>
startVars == <<unit, starts, main_pc, cfg, tcp_pc, reader, plugged, file>>

Init ==
  /\ unit = "active"
  /\ starts = 0
  /\ main_pc = "down"
  /\ cfg = load_config(<<>>)
  /\ tcp_pc = "none"
  /\ reader = "none"
  /\ plugged \in BOOLEAN
  /\ file \in Files

(* Both ports are given to the kernel as 16 bits; for 0 it chooses one     *)
(* that is free.                                                           *)
Port(n) == n % 2 ^ 16

Conflict(c) ==
  /\ c.tcp.mode = "server"
  /\ Port(c.tcp.port) = Port(c.webserver.port)
  /\ Port(c.tcp.port) # 0

(* The end of the process, of its threads and of its memory.               *)
Ends ==
  /\ main_pc' = "down"
  /\ tcp_pc' = "none"
  /\ reader' = "none"
  /\ cfg' = load_config(<<>>)
  /\ UNCHANGED plugged

-----------------------------------------------------------------------------
(* The service manager *)

(* Its count of starts in a row; the unit states no limit, so it is        *)
(* systemd's own.                                                          *)
MayStart == starts < StartLimit

Exec ==
  /\ main_pc = "down"
  /\ unit = "active"
  /\ MayStart
  /\ starts' = starts + 1
  /\ main_pc' = "load_config"
  /\ UNCHANGED <<unit, cfg, tcp_pc, reader, plugged, file>>

(* Too many starts one after the other: Restart=always gives up.           *)
GiveUp ==
  /\ main_pc = "down"
  /\ starts = StartLimit
  /\ unit' = "failed"
  /\ UNCHANGED <<starts, main_pc, cfg, tcp_pc, reader, plugged, file>>

(* The process has run for a while.                                        *)
RunsOn ==
  /\ main_pc = "pause"
  /\ starts > 0
  /\ starts' = 0
  /\ UNCHANGED <<unit, main_pc, cfg, tcp_pc, reader, plugged, file>>

(* Somebody switches the device off and on.                                *)
PowerCycle ==
  /\ unit = "failed"
  /\ unit' = "active"
  /\ starts' = 0
  /\ UNCHANGED <<main_pc, cfg, tcp_pc, reader, plugged, file>>

(* A signal ends the process.                                              *)
Killed ==
  /\ main_pc # "down"
  /\ Ends
  /\ UNCHANGED <<unitVars, file>>

-----------------------------------------------------------------------------
(* main() *)

LoadConfig ==
  /\ main_pc = "load_config"
  /\ ~Crashes(file)
  /\ cfg' \in Loads(file)
  /\ main_pc' = "forwarder_init"
  /\ UNCHANGED <<unitVars, tcp_pc, reader, plugged, file>>

(* A NULL is dereferenced, or a text that is too long runs over more than  *)
(* the configuration.                                                      *)
LoadCrashes ==
  /\ main_pc = "load_config"
  /\ Crashes(file) \/ Overflows(file)
  /\ Ends
  /\ UNCHANGED <<unitVars, file>>

(* forwarder_init creates the thread of the TCP server, or the client's,   *)
(* which has no part in this, or neither.                                  *)
ForwarderInit ==
  /\ main_pc = "forwarder_init"
  /\ tcp_pc' = IF cfg.tcp.mode = "server" THEN "bind" ELSE "none"
  /\ main_pc' = "reader"
  /\ UNCHANGED <<unitVars, cfg, reader, plugged, file>>

UseHid == cfg.usb_hid.use_hid # 0 /\ cfg.usb_com.use_com = 0
UseCom == cfg.usb_hid.use_hid = 0 /\ cfg.usb_com.use_com # 0

(* The test for the serial reader left out.                                *)
chosen_HidOnly == IF UseHid THEN "hid_open" ELSE "none"

(* One reader; none if the file asks for both or for neither.              *)
chosen == IF UseHid THEN "hid_open" ELSE IF UseCom THEN "com_open" ELSE "none"

(* pthread_create may fail, which nobody looks at.                         *)
StartReader ==
  /\ main_pc = "reader"
  /\ reader' \in {chosen, IF chosen = "none" THEN "none" ELSE "uncreated"}
  /\ main_pc' = "start_webserver"
  /\ UNCHANGED <<unitVars, cfg, tcp_pc, plugged, file>>

PageTaken == tcp_pc = "listen" /\ Conflict(cfg)

(* MHD_start_daemon gets the port, and main() waits in pause().            *)
StartWebserver ==
  /\ main_pc = "start_webserver"
  /\ ~PageTaken
  /\ main_pc' = "pause"
  /\ UNCHANGED <<unitVars, cfg, tcp_pc, reader, plugged, file>>

(* MHD_start_daemon fails: the TCP server has the port, the user may not   *)
(* have it, or there is no descriptor or thread.  start_webserver returns  *)
(* 1, and main() returns.                                                  *)
WebserverFails_Retries == main_pc = "start_webserver" /\ UNCHANGED startVars

WebserverFails ==
  /\ main_pc = "start_webserver"
  /\ Ends
  /\ UNCHANGED <<unitVars, file>>

-----------------------------------------------------------------------------
(* tcp_server_thread, until it listens *)

PortTaken == main_pc = "pause" /\ Conflict(cfg)

TcpListens ==
  /\ tcp_pc = "bind"
  /\ ~PortTaken
  /\ tcp_pc' = "listen"
  /\ UNCHANGED <<unitVars, main_pc, cfg, reader, plugged, file>>

(* socket, setsockopt, bind or listen fails, for the page's port or any    *)
(* other reason, and the thread returns, or it could not be created;       *)
(* nobody is told.                                                         *)
TcpEnds ==
  /\ tcp_pc = "bind"
  /\ tcp_pc' = "ended"
  /\ UNCHANGED <<unitVars, main_pc, cfg, reader, plugged, file>>

-----------------------------------------------------------------------------
(* usb_hid_start and usb_com_start, until they read *)

Opens(from, to) ==
  /\ reader = from
  /\ reader' = to
  /\ UNCHANGED <<unitVars, main_pc, cfg, tcp_pc, plugged, file>>

HasVid  == cfg.usb_hid.vid # "" /\ cfg.usb_hid.pid # ""
HasPort == cfg.usb_com.port # ""

HidOpens == plugged /\ HasVid /\ Opens("hid_open", "hid_read")
HidEnds  == ~(plugged /\ HasVid) /\ Opens("hid_open", "ended")

ComOpens == plugged /\ HasPort /\ Opens("com_open", "com_read")
ComEnds  == ~(plugged /\ HasPort) /\ Opens("com_open", "ended")

(* The device is pulled out.  Every read on the open descriptor fails from *)
(* then on, and the loop goes round: "spin".                               *)
Unplug ==
  /\ plugged
  /\ plugged' = FALSE
  /\ reader' = IF reader \in {"hid_read", "com_read"} THEN "spin" ELSE reader
  /\ UNCHANGED <<unitVars, main_pc, cfg, tcp_pc, file>>

Plug ==
  /\ ~plugged
  /\ plugged' = TRUE
  /\ UNCHANGED <<unitVars, main_pc, cfg, tcp_pc, reader, file>>

-----------------------------------------------------------------------------
(* The page *)

(* A post ends with another file, which handle_set_config loads as well:   *)
(* what lets the start crash ends the process here too.                    *)
PageSaves(json) ==
  /\ main_pc = "pause"
  /\ ~Crashes(json)
  /\ file' = json
  /\ UNCHANGED <<unitVars, main_pc, cfg, tcp_pc, reader, plugged>>

PageCrashes(json) ==
  /\ main_pc = "pause"
  /\ Crashes(json) \/ Overflows(json)
  /\ file' = json
  /\ Ends
  /\ UNCHANGED unitVars

(* The whole device starts again.                                          *)
Reboot ==
  /\ main_pc = "pause"
  /\ Ends
  /\ starts' = 0
  /\ UNCHANGED <<unit, file>>

-----------------------------------------------------------------------------
Main ==
  \/ LoadConfig \/ LoadCrashes \/ ForwarderInit \/ StartReader
  \/ StartWebserver \/ WebserverFails

TcpThread == TcpListens \/ TcpEnds
ReaderThread == HidOpens \/ HidEnds \/ ComOpens \/ ComEnds
Manager == Exec \/ GiveUp

Next ==
  \/ Manager \/ RunsOn \/ PowerCycle \/ Killed
  \/ Main \/ TcpThread \/ ReaderThread
  \/ Unplug \/ Plug
  \/ \E json \in Files : PageSaves(json) \/ PageCrashes(json)
  \/ Reboot

Spec == Init /\ [][Next]_startVars

(* The service manager and the threads run.                                *)
FairSpec ==
  /\ Spec
  /\ WF_startVars(Manager) /\ WF_startVars(Main)
  /\ WF_startVars(TcpThread) /\ WF_startVars(ReaderThread)

-----------------------------------------------------------------------------
(* Every variable has its type: also what load_config makes of a file,     *)
(* whose layout is one that hid_to_ascii knows, whatever the file says,    *)
(* unless a text ran over it.                                              *)
TypeOK ==
  /\ unit \in {"active", "failed"}
  /\ starts \in 0..StartLimit
  /\ main_pc \in {"down", "load_config", "forwarder_init", "reader",
                  "start_webserver", "pause"}
  /\ DOMAIN cfg = Sections
  /\ \A sec \in Sections : DOMAIN cfg[sec] = DOMAIN Config[sec]
  /\ cfg.usb_hid.keyboard_layout \in {"us", "de", "rest"}
  /\ tcp_pc \in {"none", "bind", "listen", "ended"}
  /\ reader \in {"none", "uncreated", "hid_open", "hid_read", "com_open",
                 "com_read", "spin", "ended"}
  /\ plugged \in BOOLEAN
  /\ file \in Files

(* Whatever is in the file, and whatever fails or is killed, the process   *)
(* comes up after a number of starts or the service manager gives it up:   *)
(* main() never hangs on the way, and no failure is started again for      *)
(* ever.                                                                   *)
ComesUp ==
  main_pc = "down" ~> (main_pc = "pause" \/ unit = "failed")

(* When the file asks for one reader, and names its device, the process    *)
(* reads the device, unless that is not there, the thread cannot be        *)
(* created, or the process ends.                                           *)
ReaderRuns ==
  (main_pc = "forwarder_init" /\ ((UseHid /\ HasVid) \/ (UseCom /\ HasPort)))
    ~> \/ reader \in {"hid_read", "com_read", "uncreated"}
       \/ ~plugged
       \/ main_pc = "down"
=============================================================================
