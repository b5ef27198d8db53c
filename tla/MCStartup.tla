----------------------------- MODULE MCStartup -----------------------------
(* Files that are not JSON; that lack the sections of the readers, or the  *)
(* TCP host, with which load_config crashes; that give both servers one    *)
(* port (80 and 65616 are, as 16 bits), or the page any; that ask for      *)
(* either reader, for both, or for one with its device not named; and one  *)
(* with a text that its array cannot hold and fields not given after it.   *)
EXTENDS Startup

Full ==
  [general   |-> [hostname |-> Absent, version |-> Text("1.0.0")],
   webserver |-> [host |-> Text("h"), port |-> Number(80)],
   tcp       |-> [mode |-> Text("server"), port |-> Number(81), host |-> Text("h")],
   forwarder |-> [use_interval |-> Number(2), interval_ms |-> Number(0)],
   wifi      |-> [ssid |-> Text("s"), password |-> Text("p"), static_ip |-> Text(""),
                  gateway |-> Text(""), dns |-> Text(""), use_dhcp |-> Number(1)],
   lan       |-> [static_ip |-> Text("a"), gateway |-> Text("g"), dns |-> Text("d")],
   usb_com   |-> [use_com |-> Number(0), port |-> Text("tty"), baudrate |-> Number(9600),
                  databits |-> Number(8), stopbits |-> Null, parity |-> Text("N")],
   usb_hid   |-> [use_hid |-> Number(1), vid |-> Text("v"), pid |-> Text("p"),
                  endpoint |-> Number(0), keyboard_layout |-> Text("xx")]]

Serial == [Full EXCEPT !.usb_hid.use_hid = Number(0), !.usb_com.use_com = Number(1)]

MCFiles ==
  {<<>>, Full, Serial,
   [sec \in DOMAIN Full \ {"usb_com", "usb_hid", "forwarder"} |-> Full[sec]],
   [Full EXCEPT !.tcp.host = Absent],
   [Full EXCEPT !.tcp.port = Number(65616)],
   [Serial EXCEPT !.webserver.port = Null, !.tcp.mode = Text("client")],
   [Full EXCEPT !.usb_com.use_com = Number(1)],
   [Full EXCEPT !.usb_hid.vid = Text("")],
   [Serial EXCEPT !.usb_com.port = Text("")],
   [Full EXCEPT !.lan.dns = LongText("d"), !.usb_com.use_com = Null,
                !.usb_com.parity = Absent]}
=============================================================================
