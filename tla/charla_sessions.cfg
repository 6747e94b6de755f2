SPECIFICATION Spec
CONSTANTS
  None = None
  t1 = t1  t2 = t2  t3 = t3
  h1 = h1  h2 = h2  h3 = h3
  Conn = {t1, t2, t3}
  Handle = {h1, h2, h3}
  c1 = c1 c2 = c2 c3 = c3 c4 = c4 c5 = c5 c6 = c6
  Client = {c1, c2, c3, c4, c5, c6}
  Fd = {4, 5, 6}
  MaxClients = 2
  UserCap = 3
  Wants <- WantsThree
  MaxReq = 1
  Lists = FALSE
INVARIANTS TypeOK OneSessionPerHandle OneUserPerHandle LoginMarksCaller LoginsKeepPointers
PROPERTIES UnlockByOwner
