------------------------------ MODULE Keyboard ------------------------------
(***************************************************************************)
(* The keyboard handler (device/keyboard.c) and the keyboard in front of   *)
(* it: keys go down, repeat and come up, each as one or two bytes, and the *)
(* handler takes one byte per interrupt.  What becomes of the characters   *)
(* is the business of Ioqueue.  The keys are the modifiers and one key of  *)
(* each sort the handler tells apart.                                      *)
(***************************************************************************)
EXTENDS Integers, Sequences

CONSTANTS
  Keys,         \* the keys that are used
  MaxBytes      \* bytes the keyboard holds for the handler

VARIABLES
  down,         \* the keys that are held
  caps,         \* whether the make codes of caps_lock have been odd in number
  bytes,        \* what the keyboard has sent and the handler not yet taken
  ctrl_status, shift_status, alt_status, caps_lock_status,
  ext_scancode, \* whether the last byte was 0xe0
  expected,     \* the characters the keys stand for, not yet produced (history)
  last          \* the last character the handler produced with the one expected

status == <<ctrl_status, shift_status, alt_status, caps_lock_status>>
vars == <<down, caps, bytes, status, ext_scancode, expected, last>>

char_invisible == ""

shift_l_make == 42
shift_r_make == 54
alt_l_make == 56
alt_r_make == 57400
ctrl_l_make == 29
ctrl_r_make == 57373
caps_lock_make == 58

\* The make code of a key by its name, with 0xe0 in its high byte if it is sent in two.
MakeCode ==
  [ctrl_l |-> ctrl_l_make, ctrl_r |-> ctrl_r_make, shift_l |-> shift_l_make,
   shift_r |-> shift_r_make, alt_l |-> alt_l_make, alt_r |-> alt_r_make,
   caps_lock |-> caps_lock_make, l |-> 38, one |-> 2, enter |-> 28, up |-> 57416]

ASSUME KeyboardAssumption ==
  /\ MaxBytes \in Nat \ {0}
  /\ Keys \subseteq DOMAIN MakeCode

keymap ==
  [c \in {MakeCode[k] % 256 : k \in DOMAIN MakeCode} |->
     CASE c = 38 -> <<"l", "L">>
       [] c = 2 -> <<"1", "!">>
       [] c = 28 -> <<"\r", "\r">>
       [] OTHER -> <<char_invisible, char_invisible>>]

\* The keys whose two characters only shift tells apart.
TwoSymbols == (1..13) \union {26, 27, 39, 40, 41, 43, 51, 52, 53}

Init ==
  /\ down = {} /\ caps = FALSE /\ bytes = <<>>
  /\ ctrl_status = FALSE /\ shift_status = FALSE /\ alt_status = FALSE
  /\ caps_lock_status = FALSE /\ ext_scancode = FALSE
  /\ expected = <<>> /\ last = <<"", "">>

-----------------------------------------------------------------------------
(* The keyboard.                                                           *)

\* A key in bytes, on its way down and up.
Prefix(k) == IF MakeCode[k] > 255 THEN <<224>> ELSE <<>>

MakeBytes(k) == Prefix(k) \o <<MakeCode[k] % 256>>

BreakBytes(k) == Prefix(k) \o <<(MakeCode[k] % 256) + 128>>

\* The character a key stands for while the keys of "held" are down: nothing for a
\* modifier, and ctrl only matters to the small l.
CharOf(k, held, locked) ==
  LET shift == {"shift_l", "shift_r"} \intersect held # {}
      plain == keymap[MakeCode[k] % 256][1]
      upper == keymap[MakeCode[k] % 256][2]
      char == IF shift \/ (k = "l" /\ locked) THEN upper ELSE plain
  IN  IF char = "l" /\ {"ctrl_l", "ctrl_r"} \intersect held # {} THEN "l-a" ELSE char

Send(seq) ==
  /\ Len(bytes) + Len(seq) <= MaxBytes
  /\ bytes' = bytes \o seq

\* A key goes down, or repeats while it is held.
Make(k) ==
  /\ Send(MakeBytes(k))
  /\ down' = down \union {k}
  /\ caps' = (caps # (k = "caps_lock"))
  /\ LET char == CharOf(k, down, caps)
     IN  expected' = IF char = char_invisible THEN expected ELSE Append(expected, char)
  /\ UNCHANGED <<status, ext_scancode, last>>

Break(k) ==
  /\ k \in down
  /\ Send(BreakBytes(k))
  /\ down' = down \ {k}
  /\ UNCHANGED <<caps, status, ext_scancode, expected, last>>

-----------------------------------------------------------------------------
(* intr_keyboard_handler.                                                  *)

\* The scan code the byte makes, with the prefix taken before.
Merge(byte) == IF ext_scancode THEN 57344 + byte ELSE byte

IsBreak(code) == (code \div 128) % 2 = 1

\* The codes that have an entry in keymap or are the right-hand modifiers.
Known(code) == code \in 1..58 \/ code \in {alt_r_make, ctrl_r_make}

\* Mutant: caps_lock shifts every key.
Shift_caps_all(code) == shift_status \/ caps_lock_status

Shift(code) == shift_status \/ (code \notin TwoSymbols /\ caps_lock_status)

\* The character of a make code, or char_invisible.
CurChar(code) ==
  LET char == keymap[code % 256][IF Shift(code) THEN 2 ELSE 1]
  IN  IF ctrl_status /\ char = "l" THEN "l-a" ELSE char

\* The prefix is only noted.
HandlePrefix(byte) ==
  /\ byte = 224
  /\ ext_scancode' = TRUE
  /\ UNCHANGED <<status, expected, last>>

HandleBreak(byte) ==
  LET make == Merge(byte) - 128
  IN  /\ byte # 224 /\ IsBreak(Merge(byte))
      /\ ext_scancode' = FALSE
      /\ ctrl_status' = (ctrl_status /\ make \notin {ctrl_l_make, ctrl_r_make})
      /\ shift_status' = (shift_status /\ make \notin {shift_l_make, shift_r_make})
      /\ alt_status' = (alt_status /\ make \notin {alt_l_make, alt_r_make})
      /\ UNCHANGED <<caps_lock_status, expected, last>>

\* A key with a character: nothing else is recorded.
HandleChar(byte) ==
  LET code == Merge(byte)
  IN  /\ byte # 224 /\ ~IsBreak(code) /\ Known(code) /\ CurChar(code) # char_invisible
      /\ ext_scancode' = FALSE
      /\ last' = <<CurChar(code), Head(expected)>>
      /\ expected' = Tail(expected)
      /\ UNCHANGED status

\* A modifier.  The high byte was masked off before the comparison, so the right
\* ctrl and alt are taken for the left ones.
HandleModifier(byte) ==
  LET code == Merge(byte)
  IN  /\ byte # 224 /\ ~IsBreak(code) /\ Known(code) /\ CurChar(code) = char_invisible
      /\ ext_scancode' = FALSE
      /\ ctrl_status' = (ctrl_status \/ code % 256 = ctrl_l_make)
      /\ shift_status' = (shift_status \/ code % 256 \in {shift_l_make, shift_r_make})
      /\ alt_status' = (alt_status \/ code % 256 = alt_l_make)
      /\ caps_lock_status' = (caps_lock_status # (code % 256 = caps_lock_make))
      /\ UNCHANGED <<expected, last>>

HandleUnknown(byte) ==
  /\ byte # 224 /\ ~IsBreak(Merge(byte)) /\ ~Known(Merge(byte))
  /\ ext_scancode' = FALSE
  /\ UNCHANGED <<status, expected, last>>

intr_keyboard_handler ==
  /\ bytes # <<>>
  /\ bytes' = Tail(bytes)
  /\ \/ HandlePrefix(Head(bytes)) \/ HandleBreak(Head(bytes)) \/ HandleChar(Head(bytes))
     \/ HandleModifier(Head(bytes)) \/ HandleUnknown(Head(bytes))
  /\ UNCHANGED <<down, caps>>

Next ==
  \/ \E k \in Keys : Make(k) \/ Break(k)
  \/ intr_keyboard_handler

Spec == Init /\ [][Next]_vars

-----------------------------------------------------------------------------
(* Properties.                                                             *)

\* Whatever is held, repeated and released in whatever order, and however late the
\* bytes are taken, the handler produces the characters the keys stood for when
\* they went down, if of each modifier only one key is used.
CharsAsTyped == last[1] = last[2] /\ (bytes = <<>> => expected = <<>>)
=============================================================================
