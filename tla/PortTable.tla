----------------------------- MODULE PortTable -----------------------------
(***************************************************************************)
(* What ports.yaml promises its users, with no lock, no process and no     *)
(* file in sight: a table from (owner, slot) keys to ports in which a port *)
(* appears at most once, changed only by claims that are granted as a      *)
(* whole and by releases.  PortAllocator is shown to implement it.         *)
(***************************************************************************)
CONSTANTS Owners,   \* worktree ids that may own reservations
          Slots,    \* names of port slots
          Ports,    \* port numbers
          NoPort    \* the value of a key that is not in the table

VARIABLE table

Keys == Owners \X Slots

\* The ports reserved under the keys of K.
Held(K) == {table[k] : k \in K} \ {NoPort}

OwnKeys(o, S) == {o} \X S

Injective(f, S) == \A s, t \in S : f[s] = f[t] => s = t

TInit == table = [k \in Keys |-> NoPort]

(* All the slots of S are granted at once: ports that differ pairwise and
   that no other key holds; what the owner held under S before is replaced. *)
Claim(o, S) ==
  \E grant \in [S -> Ports] :
    /\ Injective(grant, S)
    /\ \A s \in S : grant[s] \notin Held(Keys \ OwnKeys(o, S))
    /\ table' = [k \in Keys |-> IF k \in OwnKeys(o, S) THEN grant[k[2]] ELSE table[k]]

Free(K) == table' = [k \in Keys |-> IF k \in K THEN NoPort ELSE table[k]]

TNext ==
  \/ \E o \in Owners, S \in SUBSET Slots : Claim(o, S)
  \/ \E K \in SUBSET Keys : Free(K)

TSpec == TInit /\ [][TNext]_table
=============================================================================
