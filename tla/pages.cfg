CONSTANTS
  l1 = l1
  l2 = l2
  i1 = i1
  i2 = i2
  Launches = {l1, l2}
  None = None
  Unavailable = Unavailable
  MaxChain = 1
  MaxMessages <- MCMaxMessages
  Loads = {i1, i2}
SPECIFICATION Spec
PROPERTIES
  LaunchesCatchUp
  ChatSettles
