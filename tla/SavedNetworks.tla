--------------------------- MODULE SavedNetworks ---------------------------
(***************************************************************************)
(* What the list of saved networks promises to the popup, the settings page  *)
(* and wifi_manager: the networks used last, newest first, each with its     *)
(* last password; and after a restart all of a list that once was the        *)
(* current one, or, when the flash cannot be read or had to be erased, none   *)
(* of it.  A name too long for its field is kept as Cut[name], and is a       *)
(* stranger when it comes again.                                             *)
(***************************************************************************)
EXTENDS Integers, Sequences

CONSTANTS Names, Passwords, Cut, Limit

VARIABLES
  list,    \* the saved networks
  flash    \* the list as a restart that can read it will find it

vars == <<list, flash>>

Positions(n) == {i \in DOMAIN list : list[i].ssid = n}

(* The list without the network n, if n is one of them.                      *)
Without(n) ==
  IF Positions(n) = {} THEN list
  ELSE LET i == CHOOSE i \in Positions(n) : TRUE
       IN  SubSeq(list, 1, i - 1) \o SubSeq(list, i + 1, Len(list))

Newest(s) == SubSeq(s, 1, IF Len(s) < Limit THEN Len(s) ELSE Limit)

Save(n, pw) ==
  /\ list' = Newest(<<[ssid |-> Cut[n], password |-> pw]>> \o Without(n))
  /\ UNCHANGED flash

Forget(n) ==
  /\ list' = Without(n)
  /\ UNCHANGED flash

Persist == flash' = list /\ UNCHANGED list

(* The flash is erased or not, and read or not.                              *)
Restart ==
  /\ flash' \in {flash, <<>>}
  /\ list' \in {flash', <<>>}

Init == list = <<>> /\ flash = <<>>

Next ==
  \/ \E n \in Names, pw \in Passwords : Save(n, pw)
  \/ \E n \in Names : Forget(n)
  \/ Persist \/ Restart

Spec == Init /\ [][Next]_vars
=============================================================================
