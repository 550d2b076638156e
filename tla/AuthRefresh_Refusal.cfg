CONSTANTS
  a1 = a1
  a2 = a2
  a3 = a3
  p1 = p1
  p2 = p2
  Nobody = Nobody
  Actor = {a1, a3}
  Process = {p1, p2}
  ProcessOf <- OneEach
  Ops = {"refresh", "login"}
  Overstay = FALSE
SPECIFICATION Spec
PROPERTY RefusalKeepsNewer
