-------------------------------- MODULE Heap --------------------------------
(***************************************************************************)
(* What a memory allocator with one arena promises its client: a block it  *)
(* hands out lies in the arena, is as large as was asked for, is aligned   *)
(* and shares no byte with a block the client still has.                   *)
(***************************************************************************)
EXTENDS Integers

CONSTANTS ARENA, Align, Requests

VARIABLE held    \* the client's blocks: from the address to the size asked for

Bytes(p, size) == p .. (p + size - 1)

HInit == held = [p \in {} |-> 0]

(* A request may be refused, which changes nothing. *)
Allocate(p, size) ==
  /\ Bytes(p, size) \subseteq 0 .. (ARENA - 1)
  /\ p % Align = 0
  /\ \A q \in DOMAIN held : Bytes(p, size) \cap Bytes(q, held[q]) = {}
  /\ p \notin DOMAIN held
  /\ held' = [q \in DOMAIN held \cup {p} |-> IF q = p THEN size ELSE held[q]]

Release(p) ==
  /\ p \in DOMAIN held
  /\ held' = [q \in DOMAIN held \ {p} |-> held[q]]

HNext ==
  \/ \E p \in 0 .. (ARENA - 1), size \in Requests : Allocate(p, size)
  \/ \E p \in DOMAIN held : Release(p)

HSpec == HInit /\ [][HNext]_held
=============================================================================
