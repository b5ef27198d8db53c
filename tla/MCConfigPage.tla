---------------------------- MODULE MCConfigPage ----------------------------
(* Two files to begin with: one with every key, among them a name and a    *)
(* network that are too long, a null, zeros and a flag that is 2; and one  *)
(* without the sections of the readers and without the TCP host, with      *)
(* which load_config crashes.  Users put in a host that is too long.       *)
EXTENDS ConfigPage, TLC

Full ==
  [general   |-> [hostname |-> LongText("name"), version |-> Text("1.0.0")],
   webserver |-> [host |-> Text("h"), port |-> Number(80)],
   tcp       |-> [mode |-> Text("server"), port |-> Number(81), host |-> Text("h")],
   forwarder |-> [use_interval |-> Number(2), interval_ms |-> Number(0)],
   wifi      |-> [ssid |-> LongText("s"), password |-> Text("p"), static_ip |-> Text(""),
                  gateway |-> Text("wg"), dns |-> Text(""), use_dhcp |-> Number(1)],
   lan       |-> [static_ip |-> Text("a"), gateway |-> Text("lg"), dns |-> Text("d")],
   usb_com   |-> [use_com |-> Number(0), port |-> Text("tty"), baudrate |-> Number(9600),
                  databits |-> Number(8), stopbits |-> Null, parity |-> Absent],
   usb_hid   |-> [use_hid |-> Number(1), vid |-> Text("v"), pid |-> Text("p"),
                  endpoint |-> Number(0), keyboard_layout |-> Text("de")]]

Sparse ==
  [sec \in DOMAIN Full \ {"usb_com", "usb_hid", "forwarder"} |->
     IF sec = "tcp" THEN [Full.tcp EXCEPT !.host = Absent] ELSE Full[sec]]

MCHandwritten == {Full, Sparse}

MCEdits == {<<"tcp", "host", LongText("long")>>}

Symmetry == Permutations(Tabs)
=============================================================================
