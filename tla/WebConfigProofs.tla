-------------------------- MODULE WebConfigProofs --------------------------
(***************************************************************************)
(* Theorems about WebConfig, for any texts, networks and number of         *)
(* connections that upload at one time.                                    *)
(***************************************************************************)
EXTENDS WebConfig, SequenceTheorems, TLAPS

Piece == Texts \X {1, 2}

PostData == [text : Texts, data : Seq(Piece)]

(* What has come of an upload is the beginning of its own text.            *)
Uploads ==
  /\ DOMAIN upload = Posts
  /\ \A p \in Posts :
       \/ upload[p] = None
       \/ upload[p] \in PostData /\ Begins(upload[p].data, Content(upload[p].text))

(* The handler works for a connection that has uploaded something.         *)
Working ==
  web_pc # "idle" => alive /\ web_post \in Posts /\ upload[web_post] # None

(* Since it has loaded the file, the file has not changed.                 *)
Loaded ==
  web_pc \in {"hostname", "wifi", "connect", "modify", "lan", "reply"} =>
    cfg = load_config(file)

ProfileType == [secret : WithWifi, address : StaticWifi \cup {None}]

(* The profile of the network of cfg, if it could be deleted: gone, then   *)
(* made anew, then with its address, if all went well, and never another   *)
(* configuration's.                                                        *)
NewOne == [secret |-> cfg, address |-> None]

MadeFrom(profile) ==
  \/ profile = None
  \/ profile.secret = cfg /\ profile.address \in {None} \cup ({cfg} \cap StaticWifi)

WifiDone ==
  /\ DOMAIN wifi = Ssids
  /\ web_pc \in {"connect", "modify"} => cfg \in WithWifi
  /\ web_pc = "connect" /\ "wifi" \notin undeleted => Present = None
  /\ web_pc = "modify" => Present \in ProfileType
  /\ web_pc = "modify" /\ "wifi" \notin undeleted => Present = NewOne
  /\ web_pc \in {"lan", "reply"} /\ cfg \in WithWifi /\ "wifi" \notin undeleted =>
       MadeFrom(Present)

LanDone ==
  web_pc = "reply" /\ cfg \in WithLan /\ "lan" \notin undeleted => lan \in {cfg, None}

IInv == TypeOK /\ OneText /\ Uploads /\ Working /\ Loaded /\ WifiDone /\ LanDone

-----------------------------------------------------------------------------
(* Texts and their beginnings.                                             *)
LEMMA ContentType == ASSUME NEW t \in Texts PROVE Content(t) \in Seq(Piece)
<1>1. <<>> \in Seq(Piece)
  BY EmptySeq
<1>2. <<t, 1>> \in Piece /\ <<t, 2>> \in Piece
  BY DEF Piece
<1>3. <<<<t, 1>>, <<t, 2>>>> \in Seq(Piece)
  BY <1>2
<1> QED
  BY <1>1, <1>3 DEF Content

LEMMA BeginsEmpty == ASSUME NEW s \in Seq(Piece) PROVE Begins(<<>>, s)
<1>1. Len(s) \in Nat /\ Len(<<>>) = 0 /\ <<>> \in Seq(Piece)
  BY LenProperties, EmptySeq
<1>2. SubSeq(s, 1, 0) = <<>>
  BY SubSeqEmpty
<1> QED
  BY <1>1, <1>2 DEF Begins

(* A beginning of a beginning.                                             *)
LEMMA BeginsShorter ==
  ASSUME NEW s \in Seq(Piece), NEW d \in Seq(Piece), Begins(d, s),
         NEW n \in 0..Len(d)
  PROVE  SubSeq(d, 1, n) \in Seq(Piece) /\ Begins(SubSeq(d, 1, n), s)
<1>1. Len(s) \in Nat /\ Len(d) \in Nat /\ n \in Nat /\ n <= Len(d) /\ Len(d) <= Len(s)
  BY LenProperties DEF Begins
<1>2. /\ \A i \in 1..Len(d) : d[i] \in Piece
      /\ \A i \in 1..Len(s) : s[i] \in Piece
  BY ElementOfSeq
<1>3. \A i \in 1..Len(d) : d[i] = s[i]
  <2>1. d = SubSeq(s, 1, Len(d))
    BY DEF Begins
  <2>2. \A i \in 1..Len(d) : SubSeq(s, 1, Len(d))[i] = s[1 + i - 1]
    BY <1>1, <1>2, SubSeqProperties
  <2> QED
    BY <1>1, <2>1, <2>2
<1>4. /\ SubSeq(d, 1, n) \in Seq(Piece) /\ Len(SubSeq(d, 1, n)) = n
      /\ \A i \in 1..n : SubSeq(d, 1, n)[i] = d[i]
  BY <1>1, <1>2, SubSeqProperties
<1>5. /\ SubSeq(s, 1, n) \in Seq(Piece) /\ Len(SubSeq(s, 1, n)) = n
      /\ \A i \in 1..n : SubSeq(s, 1, n)[i] = s[i]
  BY <1>1, <1>2, SubSeqProperties
<1>6. SubSeq(d, 1, n) = SubSeq(s, 1, n)
  BY <1>1, <1>3, <1>4, <1>5, SeqEqual
<1> QED
  BY <1>1, <1>4, <1>6 DEF Begins

(* A beginning and the piece that comes next.                              *)
LEMMA BeginsLonger ==
  ASSUME NEW s \in Seq(Piece), NEW d \in Seq(Piece), Begins(d, s),
         Len(d) < Len(s)
  PROVE  /\ Append(d, s[Len(d) + 1]) \in Seq(Piece)
         /\ Begins(Append(d, s[Len(d) + 1]), s)
<1> DEFINE n == Len(d)
           t == Append(d, s[n + 1])
<1>1. Len(s) \in Nat /\ n \in Nat /\ n + 1 \in 1..Len(s)
  BY LenProperties
<1>2. /\ \A i \in 1..n : d[i] \in Piece
      /\ \A i \in 1..Len(s) : s[i] \in Piece
  BY ElementOfSeq
<1>3. \A i \in 1..n : d[i] = s[i]
  <2>1. d = SubSeq(s, 1, n)
    BY DEF Begins
  <2>2. \A i \in 1..n : SubSeq(s, 1, n)[i] = s[1 + i - 1]
    BY <1>1, <1>2, SubSeqProperties
  <2> QED
    BY <1>1, <2>1, <2>2
<1>4. /\ t \in Seq(Piece) /\ Len(t) = n + 1 /\ t[n + 1] = s[n + 1]
      /\ \A i \in 1..n : t[i] = d[i]
  BY <1>1, <1>2, AppendProperties
<1> HIDE DEF t
<1>5. /\ SubSeq(s, 1, n + 1) \in Seq(Piece) /\ Len(SubSeq(s, 1, n + 1)) = n + 1
      /\ \A i \in 1..n + 1 : SubSeq(s, 1, n + 1)[i] = s[i]
  BY <1>1, <1>2, SubSeqProperties
<1>6. \A i \in 1..n + 1 : t[i] = s[i]
  BY <1>1, <1>3, <1>4
<1>7. t = SubSeq(s, 1, n + 1)
  BY <1>1, <1>4, <1>5, <1>6, SeqEqual
<1> QED
  BY <1>1, <1>4, <1>7 DEF Begins, t

(* What load_config returns is a configuration, and what it returns for a  *)
(* complete text is that text.                                             *)
LEMMA LoadType == load_config(file) \in Complete \cup {"zero"}
<1>1. ASSUME IsFile(file, Complete) PROVE file[1][1] \in Complete
  <2>1. PICK t \in Complete : file = Content(t)
    BY <1>1 DEF IsFile
  <2>2. t \notin Empty
    BY <2>1, WebConfigAssumption
  <2>3. file = <<<<t, 1>>, <<t, 2>>>>
    BY <2>1, <2>2 DEF Content
  <2> QED
    BY <2>3
<1> QED
  BY <1>1 DEF load_config

-----------------------------------------------------------------------------
LEMMA InitIInv == Init => IInv
<1> SUFFICES ASSUME Init PROVE IInv
  OBVIOUS
<1> USE DEF Init
<1>1. PICK t \in Texts : file = Content(t)
  OBVIOUS
<1>2. file \in Seq(Piece)
  BY <1>1, ContentType
<1>3. TypeOK
  BY <1>2 DEF TypeOK, Piece
<1>4. OneText
  <2>1. Len(file) \in Nat /\ \A i \in 1..Len(file) : file[i] \in Piece
    BY <1>2, LenProperties, ElementOfSeq
  <2>2. /\ SubSeq(file, 1, Len(file)) \in Seq(Piece)
        /\ Len(SubSeq(file, 1, Len(file))) = Len(file)
        /\ \A i \in 1..Len(file) : SubSeq(file, 1, Len(file))[i] = file[i]
    BY <2>1, SubSeqProperties
  <2>3. file = SubSeq(file, 1, Len(file))
    BY <1>2, <2>1, <2>2, SeqEqual
  <2> QED
    BY <1>1, <2>1, <2>3 DEF OneText, Begins
<1>5. Uploads /\ Working /\ Loaded /\ WifiDone /\ LanDone
  BY DEF Uploads, Working, Loaded, WifiDone, LanDone
<1> QED
  BY <1>3, <1>4, <1>5 DEF IInv

LEMMA StutterIInv == ASSUME IInv, UNCHANGED cfgVars PROVE IInv'
<1> USE DEF IInv, cfgVars
<1>1. TypeOK' /\ OneText' /\ Uploads'
  BY DEF TypeOK, OneText, Uploads
<1>2. Working' /\ Loaded'
  BY DEF Working, Loaded, load_config, IsFile
<1>3. WifiDone' /\ LanDone'
  BY DEF WifiDone, LanDone, Present, NewOne, MadeFrom
<1> QED
  BY <1>1, <1>2, <1>3

(* The start of the process, which is not in its handler.                  *)
LEMMA BootIInv == ASSUME IInv, Boot \/ BootCrashes PROVE IInv'
<1> USE DEF IInv
<1>1. CASE Boot
  <2> USE <1>1 DEF Boot, webVars, netVars
  <2>1. TypeOK'
    BY LoadType DEF TypeOK
  <2>2. OneText' /\ Uploads' /\ Loaded'
    BY DEF OneText, Uploads, Loaded
  <2>3. Working' /\ WifiDone' /\ LanDone'
    BY DEF Working, WifiDone, LanDone
  <2> QED
    BY <2>1, <2>2, <2>3
<1>2. CASE BootCrashes
  BY <1>2, StutterIInv DEF BootCrashes
<1> QED
  BY <1>1, <1>2

(* Its end keeps the file and the profiles, and nothing of the handler.    *)
LEMMA EndsIInv == ASSUME IInv, Ends PROVE IInv'
<1> USE DEF IInv, Ends, netVars
<1>1. TypeOK'
  BY DEF TypeOK
<1>2. OneText' /\ Uploads'
  BY DEF OneText, Uploads
<1>3. Loaded' /\ Working' /\ WifiDone' /\ LanDone'
  BY DEF Loaded, Working, WifiDone, LanDone
<1> QED
  BY <1>1, <1>2, <1>3

(* A step of an upload, while the handler works for nobody.                *)
LEMMA UploadStepIInv ==
  ASSUME IInv, web_pc = "idle", NEW p \in Posts, NEW new,
         \/ new = None
         \/ new \in PostData /\ Begins(new.data, Content(new.text)),
         upload' = [upload EXCEPT ![p] = new],
         UNCHANGED <<alive, running, file, webVars, netVars>>
  PROVE  IInv'
<1> USE DEF IInv, webVars, netVars
<1>1. DOMAIN upload' = Posts /\ upload'[p] = new
  BY DEF Uploads
<1>2. \A q \in Posts : q # p => upload'[q] = upload[q]
  BY DEF Uploads
<1>3. Uploads'
  BY <1>1, <1>2 DEF Uploads
<1>4. TypeOK'
  BY <1>3 DEF TypeOK, Uploads, PostData, Piece
<1>5. OneText' /\ Working' /\ Loaded' /\ WifiDone' /\ LanDone'
  BY DEF OneText, Working, Loaded, WifiDone, LanDone
<1> QED
  BY <1>3, <1>4, <1>5

LEMMA PostStartIInv ==
  ASSUME IInv, NEW p \in Posts, NEW t \in Texts, PostStart(p, t) PROVE IInv'
<1> DEFINE new == [text |-> t, data |-> <<>>]
<1>1. new \in PostData /\ new.data = <<>> /\ new.text = t
  BY EmptySeq DEF PostData
<1>2. Begins(new.data, Content(new.text))
  BY <1>1, ContentType, BeginsEmpty
<1> HIDE DEF new
<1>3. /\ upload' = [upload EXCEPT ![p] = new] /\ web_pc = "idle"
      /\ UNCHANGED <<alive, running, file, webVars, netVars>>
  BY DEF PostStart, Idle, new
<1> QED
  BY <1>1, <1>2, <1>3, UploadStepIInv

LEMMA DataReplaced ==
  ASSUME NEW r \in PostData, NEW d
  PROVE  [r EXCEPT !.data = d] = [text |-> r.text, data |-> d]
BY DEF PostData

LEMMA PostPieceIInv ==
  ASSUME IInv, NEW p \in Posts, PostPiece(p) PROVE IInv'
<1> DEFINE old == upload[p]
           new == [text |-> old.text, data |-> Append(old.data, NextPiece(p))]
<1>1. old \in PostData /\ Begins(old.data, Content(old.text))
  BY DEF PostPiece, More, IInv, Uploads
<1>2. old.text \in Texts /\ old.data \in Seq(Piece)
  BY <1>1 DEF PostData
<1>3. Content(old.text) \in Seq(Piece)
  BY <1>2, ContentType
<1>4. Len(old.data) < Len(Content(old.text))
  BY DEF PostPiece, More
<1>5. NextPiece(p) = Content(old.text)[Len(old.data) + 1]
  BY DEF NextPiece
<1>6. /\ Append(old.data, NextPiece(p)) \in Seq(Piece)
      /\ Begins(Append(old.data, NextPiece(p)), Content(old.text))
  BY <1>1, <1>2, <1>3, <1>4, <1>5, BeginsLonger
<1>7. new \in PostData /\ Begins(new.data, Content(new.text))
  BY <1>2, <1>6 DEF PostData
<1>8. /\ upload' = [upload EXCEPT ![p] = new] /\ web_pc = "idle"
      /\ UNCHANGED <<alive, running, file, webVars, netVars>>
  <2>1. [old EXCEPT !.data = Append(@, NextPiece(p))] = new
    BY <1>1, DataReplaced
  <2>2. [upload EXCEPT ![p].data = Append(@, NextPiece(p))] =
          [upload EXCEPT ![p] = [old EXCEPT !.data = Append(@, NextPiece(p))]]
    OBVIOUS
  <2> QED
    BY <2>1, <2>2 DEF PostPiece, Idle
<1> HIDE DEF new
<1> QED
  BY <1>7, <1>8, UploadStepIInv

LEMMA PostAbortsIInv ==
  ASSUME IInv, NEW p \in Posts, PostAborts(p) PROVE IInv'
BY UploadStepIInv DEF PostAborts, Idle

-----------------------------------------------------------------------------
(* A truncated file is the beginning of any text, of the upload's too.     *)
LEMMA SaveOpensIInv == ASSUME IInv, NEW p \in Posts, SaveOpens(p) PROVE IInv'
<1> USE DEF IInv, SaveOpens, Idle, netVars
<1>1. TypeOK'
  BY EmptySeq DEF TypeOK
<1>2. OneText'
  <2>1. PICK t \in Texts : Begins(file, Content(t))
    BY DEF OneText
  <2>2. Begins(<<>>, Content(t))
    BY ContentType, BeginsEmpty
  <2> QED
    BY <2>2 DEF OneText, Begins
<1>3. Uploads' /\ Working'
  BY DEF Uploads, Working
<1>4. Loaded' /\ WifiDone' /\ LanDone'
  BY DEF Loaded, WifiDone, LanDone
<1> QED
  BY <1>1, <1>2, <1>3, <1>4

LEMMA SaveFailsIInv == ASSUME IInv, NEW p \in Posts, SaveFails(p) PROVE IInv'
<1> USE DEF IInv, SaveFails, Idle, netVars
<1>1. TypeOK' /\ OneText' /\ Uploads'
  BY DEF TypeOK, OneText, Uploads
<1>2. Working'
  BY DEF Working
<1>3. Loaded' /\ WifiDone' /\ LanDone'
  BY DEF Loaded, WifiDone, LanDone
<1> QED
  BY <1>1, <1>2, <1>3

(* What is written, all or not, is the beginning of the upload, which is   *)
(* the beginning of its text.                                              *)
LEMMA SaveWritesIInv ==
  ASSUME IInv, NEW n \in Nat, SaveWrites(n) PROVE IInv'
<1> USE DEF IInv, netVars
<1> DEFINE post == upload[web_post]
<1>1. post \in PostData /\ Begins(post.data, Content(post.text))
  BY DEF SaveWrites, Working, Uploads
<1>2. post.text \in Texts /\ post.data \in Seq(Piece)
  BY <1>1 DEF PostData
<1>3. file' = SubSeq(post.data, 1, n) /\ n \in 0..Len(post.data)
  BY DEF SaveWrites
<1>4. file' \in Seq(Piece) /\ Begins(file', Content(post.text))
  BY <1>1, <1>2, <1>3, ContentType, BeginsShorter
<1> HIDE DEF post
<1>5. OneText'
  BY <1>2, <1>4 DEF OneText, Begins
<1>6. TypeOK' /\ Uploads'
  BY <1>4 DEF SaveWrites, TypeOK, Uploads, Piece
<1>7. Working'
  BY DEF SaveWrites, Working
<1>8. Loaded' /\ WifiDone' /\ LanDone'
  BY DEF SaveWrites, Loaded, WifiDone, LanDone
<1> QED
  BY <1>5, <1>6, <1>7, <1>8

LEMMA LoadIInv == ASSUME IInv, Load PROVE IInv'
<1> USE DEF IInv, Load, netVars
<1>1. TypeOK'
  BY LoadType DEF TypeOK
<1>2. OneText' /\ Uploads' /\ Working'
  BY DEF OneText, Uploads, Working
<1>3. Loaded'
  BY DEF Loaded, load_config, IsFile
<1>4. WifiDone' /\ LanDone'
  BY DEF WifiDone, LanDone
<1> QED
  BY <1>1, <1>2, <1>3, <1>4

LEMMA ReplyIInv == ASSUME IInv, Reply PROVE IInv'
<1> USE DEF IInv, Reply, netVars
<1>1. web_post \in Posts
  BY DEF Working
<1>2. Uploads'
  BY <1>1 DEF Uploads
<1>3. TypeOK'
  BY <1>1, <1>2 DEF TypeOK, Uploads, PostData, Piece
<1>4. OneText' /\ Working' /\ Loaded'
  BY DEF OneText, Working, Loaded
<1>5. WifiDone' /\ LanDone'
  BY DEF WifiDone, LanDone
<1> QED
  BY <1>2, <1>3, <1>4, <1>5

-----------------------------------------------------------------------------
(* apply_device_settings: the parts of the invariant that none of its      *)
(* steps disturbs.                                                         *)
LEMMA ApplyKeeps ==
  ASSUME IInv, NEW from, NEW to, ApplyStep(from, to),
         from \in {"hostname", "wifi", "connect", "modify", "lan"}
  PROVE  OneText' /\ Uploads' /\ Working' /\ Loaded'
<1> USE DEF IInv, ApplyStep
<1>1. OneText' /\ Uploads'
  BY DEF OneText, Uploads
<1>2. Working'
  BY DEF Working
<1>3. Loaded'
  BY DEF Loaded, load_config, IsFile
<1> QED
  BY <1>1, <1>2, <1>3

LEMMA HostnameIInv == ASSUME IInv, Hostname PROVE IInv'
<1> USE DEF IInv, Hostname
<1>1. OneText' /\ Uploads' /\ Working' /\ Loaded'
  BY ApplyKeeps
<1>2. TypeOK'
  BY DEF TypeOK, ApplyStep
<1>3. WifiDone' /\ LanDone'
  BY DEF WifiDone, LanDone, ApplyStep
<1> QED
  BY <1>1, <1>2, <1>3

(* A new profile, or none, for the network of cfg, and no other changed.   *)
LEMMA ProfileSet ==
  ASSUME IInv, cfg \in WithWifi, UNCHANGED cfg, NEW new, Profile(new),
         new = None \/ new \in ProfileType
  PROVE  /\ DOMAIN wifi' = Ssids
         /\ Present' = new
         /\ \A s \in Ssids : wifi'[s] = None \/ wifi'[s] \in ProfileType
<1>1. Ssid[cfg] \in Ssids
  BY DEF Ssids
<1>2. DOMAIN wifi = Ssids
  BY DEF IInv, WifiDone
<1>3. wifi'[Ssid[cfg]] = new /\ \A s \in Ssids \ {Ssid[cfg]} : wifi'[s] = wifi[s]
  BY <1>1, <1>2 DEF Profile
<1> QED
  BY <1>1, <1>2, <1>3 DEF IInv, TypeOK, Profile, ProfileType, Present

(* The network of cfg has a profile of the right type, or none.            *)
LEMMA PresentType ==
  ASSUME IInv, cfg \in WithWifi PROVE Present = None \/ Present \in ProfileType
BY DEF IInv, TypeOK, Ssids, Present, ProfileType

(* What connecting leaves: a profile of cfg alone, if there was none.      *)
LEMMA NewProfileSet ==
  ASSUME IInv, cfg \in WithWifi, UNCHANGED cfg, NewProfile
  PROVE  /\ DOMAIN wifi' = Ssids
         /\ Present' \in ProfileType
         /\ Present = None => Present' = NewOne'
         /\ \A s \in Ssids : wifi'[s] = None \/ wifi'[s] \in ProfileType
         /\ UNCHANGED <<hostname, lan>>
<1>1. PICK secret \in {cfg} \cup (IF Present = None THEN {} ELSE {Present.secret}),
           address \in {None} \cup (IF Present = None THEN {} ELSE {Present.address}) :
         Profile([secret |-> secret, address |-> address])
  BY DEF NewProfile
<1> DEFINE new == [secret |-> secret, address |-> address]
<1>2. new \in ProfileType /\ (Present = None => new = [secret |-> cfg, address |-> None])
  BY <1>1, PresentType DEF ProfileType
<1> HIDE DEF new
<1>4. Profile(new)
  BY <1>1 DEF new
<1>5. /\ DOMAIN wifi' = Ssids /\ Present' = new
      /\ \A s \in Ssids : wifi'[s] = None \/ wifi'[s] \in ProfileType
  BY <1>2, <1>4, ProfileSet
<1> QED
  BY <1>2, <1>4, <1>5 DEF NewOne, Profile

LEMMA WifiSkipsIInv == ASSUME IInv, WifiSkips PROVE IInv'
<1> USE DEF IInv, WifiSkips, netVars
<1>1. OneText' /\ Uploads' /\ Working' /\ Loaded'
  BY ApplyKeeps
<1>2. TypeOK' /\ WifiDone' /\ LanDone'
  BY DEF TypeOK, WifiDone, LanDone, ApplyStep
<1> QED
  BY <1>1, <1>2

LEMMA WifiDeletesIInv == ASSUME IInv, WifiDeletes PROVE IInv'
<1> USE DEF IInv
<1>1. OneText' /\ Uploads' /\ Working' /\ Loaded'
  BY ApplyKeeps DEF WifiDeletes
<1>2. cfg \in WithWifi /\ UNCHANGED cfg /\ web_pc' = "connect"
  BY DEF WifiDeletes, ApplyStep
<1>3. CASE Profile(None) /\ UNCHANGED undeleted
  <2>1. /\ DOMAIN wifi' = Ssids /\ Present' = None
        /\ \A s \in Ssids : wifi'[s] = None \/ wifi'[s] \in ProfileType
    BY <1>2, <1>3, ProfileSet
  <2>2. TypeOK'
    BY <1>3, <2>1 DEF TypeOK, WifiDeletes, ApplyStep, Profile, ProfileType
  <2>3. WifiDone' /\ LanDone'
    BY <1>2, <2>1 DEF WifiDone, LanDone
  <2> QED
    BY <1>1, <2>2, <2>3
<1>4. CASE undeleted' = undeleted \cup {"wifi"} /\ UNCHANGED <<hostname, lan, wifi>>
  <2>1. TypeOK'
    BY <1>4 DEF TypeOK, WifiDeletes, ApplyStep
  <2>2. WifiDone' /\ LanDone'
    BY <1>2, <1>4 DEF WifiDone, LanDone
  <2> QED
    BY <1>1, <2>1, <2>2
<1> QED
  BY <1>3, <1>4 DEF WifiDeletes

LEMMA WifiConnectsIInv == ASSUME IInv, WifiConnects PROVE IInv'
<1> USE DEF IInv
<1>1. OneText' /\ Uploads' /\ Working' /\ Loaded'
  BY ApplyKeeps DEF WifiConnects
<1>2. /\ cfg \in WithWifi /\ UNCHANGED <<cfg, undeleted>>
      /\ web_pc' = "modify" /\ ("wifi" \notin undeleted => Present = None)
  BY DEF WifiConnects, ApplyStep, WifiDone
<1>3. /\ DOMAIN wifi' = Ssids /\ Present' \in ProfileType
      /\ Present = None => Present' = NewOne'
      /\ \A s \in Ssids : wifi'[s] = None \/ wifi'[s] \in ProfileType
      /\ UNCHANGED <<hostname, lan>>
  BY <1>2, NewProfileSet DEF WifiConnects
<1>4. TypeOK'
  BY <1>3 DEF TypeOK, WifiConnects, ApplyStep, ProfileType
<1>5. WifiDone' /\ LanDone'
  BY <1>2, <1>3 DEF WifiDone, LanDone
<1> QED
  BY <1>1, <1>4, <1>5

LEMMA WifiFailsIInv == ASSUME IInv, WifiFails PROVE IInv'
<1> USE DEF IInv
<1>1. OneText' /\ Uploads' /\ Working' /\ Loaded'
  BY ApplyKeeps DEF WifiFails
<1>2. /\ cfg \in WithWifi /\ UNCHANGED <<cfg, undeleted>>
      /\ web_pc' = "lan" /\ ("wifi" \notin undeleted => Present = None)
  BY DEF WifiFails, ApplyStep, WifiDone
<1>3. CASE NewProfile
  <2>1. /\ DOMAIN wifi' = Ssids
        /\ Present = None => Present' = NewOne'
        /\ \A s \in Ssids : wifi'[s] = None \/ wifi'[s] \in ProfileType
        /\ UNCHANGED <<hostname, lan>>
    BY <1>2, <1>3, NewProfileSet
  <2>2. TypeOK'
    BY <2>1 DEF TypeOK, WifiFails, ApplyStep, ProfileType
  <2>3. WifiDone' /\ LanDone'
    BY <1>2, <2>1 DEF WifiDone, LanDone, MadeFrom, NewOne
  <2> QED
    BY <1>1, <2>2, <2>3
<1>4. CASE UNCHANGED <<hostname, lan, wifi>>
  <2>1. TypeOK'
    BY <1>4 DEF TypeOK, WifiFails, ApplyStep
  <2>2. WifiDone' /\ LanDone'
    BY <1>2, <1>4 DEF WifiDone, LanDone, MadeFrom, Present
  <2> QED
    BY <1>1, <2>1, <2>2
<1> QED
  BY <1>3, <1>4 DEF WifiFails

LEMMA WifiModifiesIInv == ASSUME IInv, WifiModifies PROVE IInv'
<1> USE DEF IInv
<1>1. OneText' /\ Uploads' /\ Working' /\ Loaded'
  BY ApplyKeeps DEF WifiModifies
<1>2. /\ cfg \in WithWifi /\ UNCHANGED <<cfg, undeleted>> /\ web_pc' = "lan"
      /\ Present \in ProfileType /\ ("wifi" \notin undeleted => Present = NewOne)
  BY DEF WifiModifies, ApplyStep, WifiDone
<1>3. PICK address \in {Present.address, IF cfg \in StaticWifi THEN cfg ELSE None} :
         Profile([Present EXCEPT !.address = address])
  BY DEF WifiModifies
<1> DEFINE new == [Present EXCEPT !.address = address]
<1>5. /\ new \in ProfileType
      /\ new.secret = Present.secret /\ new.address = address
  BY <1>2, <1>3 DEF ProfileType
<1> HIDE DEF new
<1>6. Profile(new)
  BY <1>3 DEF new
<1>7. /\ DOMAIN wifi' = Ssids /\ Present' = new
      /\ \A s \in Ssids : wifi'[s] = None \/ wifi'[s] \in ProfileType
  BY <1>2, <1>5, <1>6, ProfileSet
<1>8. TypeOK'
  BY <1>6, <1>7 DEF TypeOK, WifiModifies, ApplyStep, Profile, ProfileType
<1>9. "wifi" \notin undeleted =>
        new.secret = cfg /\ new.address \in {None} \cup ({cfg} \cap StaticWifi)
  BY <1>2, <1>3, <1>5 DEF NewOne
<1>10. WifiDone' /\ LanDone'
  BY <1>2, <1>7, <1>9 DEF WifiDone, LanDone, MadeFrom
<1> QED
  BY <1>1, <1>8, <1>10

LEMMA LanIInv == ASSUME IInv, LanSkips \/ LanApplies PROVE IInv'
<1> USE DEF IInv, LanSkips, LanApplies, netVars
<1>1. OneText' /\ Uploads' /\ Working' /\ Loaded'
  BY ApplyKeeps
<1>2. TypeOK'
  BY DEF TypeOK, ApplyStep
<1>3. WifiDone'
  BY DEF WifiDone, ApplyStep, Present, NewOne, MadeFrom
<1>4. LanDone'
  BY DEF LanDone, ApplyStep
<1> QED
  BY <1>1, <1>2, <1>3, <1>4

-----------------------------------------------------------------------------
LEMMA UploadIInv == ASSUME IInv, NEW p \in Posts, Upload(p) PROVE IInv'
BY PostStartIInv, PostPieceIInv, PostAbortsIInv, SaveOpensIInv, SaveFailsIInv
DEF Upload

LEMMA HandlerStepIInv == ASSUME IInv, HandlerStep PROVE IInv'
<1>1. ASSUME NEW n \in 0..2, SaveWrites(n) PROVE IInv'
  <2>1. n \in Nat
    OBVIOUS
  <2> QED
    BY <1>1, <2>1, SaveWritesIInv
<1>2. LoadDies => Ends
  BY DEF LoadDies
<1> QED
  BY <1>1, <1>2, LoadIInv, EndsIInv, HostnameIInv, WifiSkipsIInv,
     WifiDeletesIInv, WifiConnectsIInv, WifiFailsIInv, WifiModifiesIInv, LanIInv,
     ReplyIInv
  DEF HandlerStep

(* The inductive invariant: what each upload holds is of its own text, the *)
(* file has not changed since it was loaded, and the profiles are as far   *)
(* as the handler has come.                                                *)
THEOREM Invariance == Spec => []IInv
<1>1. Init => IInv
  BY InitIInv
<1>2. IInv /\ [Next]_cfgVars => IInv'
  <2> SUFFICES ASSUME IInv, [Next]_cfgVars PROVE IInv'
    OBVIOUS
  <2>1. CASE ProcessDies \/ handle_reboot
    BY <2>1, EndsIInv DEF ProcessDies, handle_reboot
  <2>2. CASE Next
    BY <2>1, <2>2, BootIInv, UploadIInv, HandlerStepIInv DEF Next
  <2>3. CASE UNCHANGED cfgVars
    BY <2>3, StutterIInv
  <2> QED
    BY <2>2, <2>3
<1> QED
  BY <1>1, <1>2, PTL DEF Spec

(* Every variable has its type, whatever the files hold.                   *)
THEOREM TypeCorrect == Spec => []TypeOK
<1>1. IInv => TypeOK
  BY DEF IInv
<1> QED
  BY <1>1, Invariance, PTL

(* config.json never holds pieces of two texts, however many browsers post *)
(* at one time and wherever the process dies.                              *)
THEOREM NeverMixed == Spec => []OneText
<1>1. IInv => OneText
  BY DEF IInv
<1> QED
  BY <1>1, Invariance, PTL

(* When the handler answers, no profile of a network that the file         *)
(* configures is left from another configuration, unless it could not be   *)
(* deleted, and whichever of the other commands and of the writes failed.  *)
THEOREM AppliedOrMissing == Spec => []Applied
<1>1. IInv => Applied
  BY DEF IInv, Loaded, WifiDone, LanDone, Applied, MadeFrom, Present
<1> QED
  BY <1>1, Invariance, PTL
=============================================================================
