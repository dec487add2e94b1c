SPECIFICATION FairToOne
CONSTANTS
  c1 = c1
  c2 = c2
  c3 = c3
  air = air
  mini = mini
  Nobody = Nobody
  Conns = {c1, c2, c3}
  Viewers = {air, mini}
  Kickable = {air}
  ViewerOf <- TwoMacs
INVARIANTS DrivesOrIsCancelled LeaseIsNotLeaked BlockedNotAdmitted RosterSettles
 
