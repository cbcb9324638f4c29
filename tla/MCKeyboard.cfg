CONSTANTS
  Keys = {"ctrl_r", "shift_l", "alt_l", "caps_lock", "l", "one", "enter", "up"}
  MaxBytes = 3
SPECIFICATION Spec
INVARIANTS
  CharsAsTyped
