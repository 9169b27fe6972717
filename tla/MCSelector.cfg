SPECIFICATION SelectorSpec
CONSTANTS
  f1 = f1
  f2 = f2
  s1 = s1
  h1 = h1
  a = a
  b = b
  NoFd = NoFd
  Files = {f1, f2}
  Socks = {s1}
  Fds = {h1}
  Datas = {a, b}
  Timeouts <- MCTimeouts
INVARIANTS
  InSync
  Findable
  SelectSound
CHECK_DEADLOCK FALSE
