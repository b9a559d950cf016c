SPECIFICATION Spec
CONSTANTS
  ann = ann
  ben = ben
  a1 = a1
  a2 = a2
  l1 = l1
  l2 = l2
  pic = pic
  seed1 = seed1
  seed2 = seed2
  DiscordIds = {ann, ben}
  Ids = {a1, a2}
  NoId = NoId
  Nobody = Nobody
  Pictures = {pic}
  Seeds = {seed1, seed2}
  NoSource = NoSource
  Rights = {"tester"}
  Logins = {l1, l2}
INVARIANTS OneAccountEach PictureMatches FlagsHold
SYMMETRY Symmetric
