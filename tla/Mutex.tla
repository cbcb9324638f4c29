-------------------------------- MODULE Mutex --------------------------------
(***************************************************************************)
(* What a lock of the kernel promises its users: at any time it is free or *)
(* owned by one of them, who may take it again and gives it back as often. *)
(***************************************************************************)
EXTENDS Naturals

CONSTANTS Users, Locks, NoUser

VARIABLES
  owner,        \* per lock, the user that owns it
  nesting       \* per lock, how often its owner has taken it

Init ==
  /\ owner = [l \in Locks |-> NoUser]
  /\ nesting = [l \in Locks |-> 0]

Take(u, l) ==
  /\ owner[l] = NoUser
  /\ owner' = [owner EXCEPT ![l] = u]
  /\ nesting' = [nesting EXCEPT ![l] = 1]

TakeAgain(u, l) ==
  /\ owner[l] = u
  /\ nesting' = [nesting EXCEPT ![l] = @ + 1]
  /\ UNCHANGED owner

GiveBack(u, l) ==
  /\ owner[l] = u
  /\ nesting' = [nesting EXCEPT ![l] = @ - 1]
  /\ owner' = IF nesting[l] = 1 THEN [owner EXCEPT ![l] = NoUser] ELSE owner

Next ==
  \E u \in Users, l \in Locks : Take(u, l) \/ TakeAgain(u, l) \/ GiveBack(u, l)

Spec == Init /\ [][Next]_<<owner, nesting>>
=============================================================================
