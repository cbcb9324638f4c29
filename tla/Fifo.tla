-------------------------------- MODULE Fifo --------------------------------
(***************************************************************************)
(* What a character queue promises: characters come out in the order they  *)
(* went in, none twice, and none is given up once it is in.                *)
(***************************************************************************)
EXTENDS Naturals, Sequences

CONSTANTS Chars, Capacity

VARIABLES
  queue,        \* the characters inside
  in,           \* the last character that was put
  out           \* the last character that was taken

Init == queue = <<>> /\ in \in Chars /\ out \in Chars

Put(c) ==
  /\ Len(queue) < Capacity
  /\ queue' = Append(queue, c)
  /\ in' = c
  /\ UNCHANGED out

Get ==
  /\ queue # <<>>
  /\ queue' = Tail(queue)
  /\ out' = Head(queue)
  /\ UNCHANGED in

Next == Get \/ \E c \in Chars : Put(c)

Spec == Init /\ [][Next]_<<queue, in, out>>
=============================================================================
