SPECIFICATION FairSpec
CONSTANTS
  p1 = p1
  p2 = p2
  home = home
  moved = moved
  lacking = lacking
  empty = empty
  net = net
  Posts <- MCPosts
  Texts <- MCTexts
  Complete = {home, moved}
  Incomplete = {lacking}
  Overlong = {moved}
  WithLan = {home, moved}
  WithWifi = {home, moved}
  Ssid <- MCSsid
  StaticWifi = {home}
  Empty = {empty}
  None = None
PROPERTIES
  SetUpOnBoot
