\* Two places for bufferevents, two clients, two users, one restart
CONSTANTS
  Addresses = {a1, a2}
  NoAddress = none
  Users = {u1, u2}
  MaxClients = 2
  MaxSets = 2
  MaxStarts = 2
SPECIFICATION Spec
CHECK_DEADLOCK FALSE
INVARIANTS ClientsSound
PROPERTIES LoopResumes
