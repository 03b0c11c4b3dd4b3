\* Two accounts and two chats meet in two processes.
SPECIFICATION Spec
CONSTANTS
  None = None
  Users = {u1, u2}
  Chats = {c1, c2}
  Procs = {p1, p2}
  c1 = c1
  u1 = u1
  u2 = u2
  Pages <- MCPages
  Forms <- MCForms
  MaxUpdates = 2
  MaxRequests = 4
  MaxLosses = 1
INVARIANTS
  TypeOK
  ChatHasOneAccount
  CodesConnectOnce
  ActiveLensIsOwn
  DeletesTheLensTalkedTo
PROPERTY UpdatesAreAnswered
