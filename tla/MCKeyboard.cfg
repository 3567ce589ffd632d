SPECIFICATION KbSpec
CONSTANTS
  a = a
  Letters = {a}
  LSHIFT = LSHIFT
  RSHIFT = RSHIFT
  CTRL = CTRL
  CAPS = CAPS
  BUFF_LEN = 3
  Filter = 2
  KeyWrap = 4
  MaxDown = 2
  NONE = NONE
INVARIANTS KeysAreFollowed
PROPERTIES RingIsQueue
