SPECIFICATION FairSpec
CONSTANTS
  c1 = c1
  c2 = c2
  c3 = c3
  air = air
  mini = mini
  Nobody = Nobody
  Conns = {c1}
  Viewers = {air, mini}
  Kickable = {air, mini}
  ViewerOf <- OneMac
PROPERTIES OnlyUnblockForgives
