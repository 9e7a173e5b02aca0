\* Session
CONSTANTS
  Addr = {a, b}
  NoAddr = null
\* Push
  PushCall = {p1, p2}
  MaxRows = 2
\* Inbox
  InboxLoad = {l1, l2}
\* Badge
  BadgeOwner = a
  BadgeConv = {c1, c2}
  BadgeRun = {r1, r2}
  MaxNs = 1
\* Inbound
  InboundMsg = {m1, m2, m3}
  RingSize = 2
  MaxClients = 2
\* Reactions
  Emoji = {heart, thumb}
  NoEmoji = none
  Peer = {peer}
  Me = me
  Toggle = {t1, t2}
  MaxTaps = 2
  MaxPeerNews = 1
\* GroupThread
  Group = {g, h}
  NoGroup = noGroup
  GroupRun = {r1, r2}
  MaxPosts = 1
\* Groups
  d1 = d1
  d2 = d2
  x = x
  Member = {d1, d2, x}
  Device = {d1, d2}
  Founded <- MCFounded
  Rosters <- MCRosters
  Reachable = {d1, d2}
  MaxChanges = 1
\* Attachments
  File = {f, u}
  OwnFile = {u}
  NoFile = noFile
  Download = {k1, k2}
\* Installations
  Cap = 2
  MaxInst = 3
  Undated = {1}
  Creation = {c1, c2}
\* PushReceiver
  Pushed = {p1, p2}
SPECIFICATION Spec
INVARIANTS
  ComponentsTypeOK
  BadgeTrue
  MarkedStaysQuiet
  PillsAgree
  GroupThreadOwn
  RosterReached
  ProtectedStay
  CellShowsOwn
  DownloadsOnce
  RetryFits
PROPERTIES
  ImplementsPushGate
  SpinnerEnds
  LoadingHeals
  ReceiverAnswers
CHECK_DEADLOCK FALSE
