-------------------------------- MODULE Slot --------------------------------
(* The slot of an unsync::OnceCell, an Option in an UnsafeCell, and what   *)
(* the program has borrowed from it.                                       *)
CONSTANT Null  \* None

VARIABLES
  inner,  \* what is in the cell, or Null
  refs    \* the values the program has references to

\* No reference dangles: the value it points to is the one in the cell, although a
\* closure may have stored it while another closure was about to.
RefsAreValid == refs \subseteq {inner} \ {Null}
=============================================================================
