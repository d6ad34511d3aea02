SPECIFICATION IntegrationsSpec
CONSTANTS
  Users = {anna, bert, cleo}
  Founder = anna
  Members = {bert}
  a = a
  b = b
  ClusterIds = {a, b}
  First = a
  Requests = {r1, r2}
  PreviousRoles = {"admin"}
  LastMonth = 1
  Mixes <- AllMixes
  e1 = e1
  w1 = w1
  t1 = t1
  Setups <- SomeSetups
  Changes <- SomeChanges
  MailedAtStart = TRUE
  Recipients = {bert, none}
  Events = {e1}
  DefaultEvents = {e1}
  MailedEvents = {e1}
  Installations = {i1}
  None = none
PROPERTY EventsKeepTheChannel
CHECK_DEADLOCK FALSE
