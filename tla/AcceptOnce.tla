----------------------------- MODULE AcceptOnce -----------------------------
(***************************************************************************)
(* What the identity gate promises its readers, without deliveries,        *)
(* retries or failures: an event id is claimed by one payload, for ever,   *)
(* and only the payload that claimed it is ever visible under it.          *)
(***************************************************************************)
CONSTANTS
  Id,        \* event ids
  Payload,   \* the payloads that may claim them
  None       \* not claimed

VARIABLES
  claimed,   \* the payload that claimed each id
  visible    \* the <<id, payload>> pairs readers can see

vars == <<claimed, visible>>

Init == claimed = [i \in Id |-> None] /\ visible = {}

Claim(i, p) ==
  /\ claimed[i] = None
  /\ claimed' = [claimed EXCEPT ![i] = p]
  /\ UNCHANGED visible

Reveal(i) ==
  /\ claimed[i] # None
  /\ visible' = visible \cup {<<i, claimed[i]>>}
  /\ UNCHANGED claimed

Next == \E i \in Id : Reveal(i) \/ \E p \in Payload : Claim(i, p)

Spec == Init /\ [][Next]_vars
=============================================================================
