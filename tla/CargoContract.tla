---------------------------- MODULE CargoContract ----------------------------
(***************************************************************************)
(* What a contract promises, whatever flights carry it: its cargo leaves   *)
(* the company's hands once.  It is delivered and paid, or it is given     *)
(* back to where it was taken from, or it is lost, and then nothing more   *)
(* ever happens to it.                                                     *)
(***************************************************************************)
EXTENDS Naturals

CONSTANT Contracts

VARIABLES
    phase,         \* what became of each contract
    paid,          \* how often it was paid
    returned       \* how often its cargo was given back

vars == <<phase, paid, returned>>

Phases == {"unbooked", "carried", "delivered", "returned", "lost"}

Init ==
    /\ phase = [c \in Contracts |-> "unbooked"]
    /\ paid = [c \in Contracts |-> 0]
    /\ returned = [c \in Contracts |-> 0]

Once(count, S) == [c \in Contracts |-> IF c \in S THEN count[c] + 1 ELSE count[c]]

\* The contracts S go from p to q.
Move(S, p, q) ==
    /\ \A c \in S : phase[c] = p
    /\ phase' = [c \in Contracts |-> IF c \in S THEN q ELSE phase[c]]

Book(c) ==
    /\ UNCHANGED <<paid, returned>>
    /\ Move({c}, "unbooked", "carried")

\* One landing may deliver several contracts at once, and is paid for each.
Deliver(S) ==
    /\ paid' = Once(paid, S)
    /\ UNCHANGED returned
    /\ Move(S, "carried", "delivered")

\* One cancellation may give several contracts back.
Return(S) ==
    /\ returned' = Once(returned, S)
    /\ UNCHANGED paid
    /\ Move(S, "carried", "returned")

Lose(c) ==
    /\ UNCHANGED <<paid, returned>>
    /\ Move({c}, "carried", "lost")

Next ==
    \/ \E c \in Contracts : Book(c) \/ Lose(c)
    \/ \E S \in SUBSET Contracts : Deliver(S) \/ Return(S)

Spec == Init /\ [][Next]_vars
=============================================================================
