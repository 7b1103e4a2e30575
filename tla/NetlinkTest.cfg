SPECIFICATION Spec
CONSTANTS
  Client = {c1, c2, c3}
  None = None
INVARIANTS CleanUnload AllRepliesRead NoStrayReply
PROPERTIES ClientEnds LifeSpec
