--------------------------- MODULE SizingProperties --------------------------
(* What the bisection of BufferSizing is expected to find.                 *)
EXTENDS BufferSizing

Found == hi \div Grid
Over == round = Iterations
ProtectedSet == {b \in Bundles : Protected(b)}
AllLive == \A b \in ProtectedSet : Expiration(b) > gap

(* The answer of the bisection, when every protected bundle outlives the   *)
(* gap.  With priority-aware admission it is the protected backlog, to the *)
(* byte, however much other traffic there is (buffer_sizing.py:17-19).     *)
(* Class-blind admission takes an arrival if it fits what came before: the *)
(* answer is at least the protected backlog and saves all of it, and one   *)
(* byte less does not; it need not be the smallest such buffer, as a       *)
(* greater one may save less (buffer_sizing.py:111-136).                   *)
KeptBlindly(cap) ==
  CHOOSE K \in SUBSET Bundles :
    \A b \in Bundles : b \in K <=> Bytes({d \in K : Earlier(d, b)}) + Size(b) <= cap
SizedRight ==
  Over /\ AllLive /\ ProtectedSet # {} =>
    IF aware THEN Found = Bytes(ProtectedSet)
    ELSE /\ Found >= Bytes(ProtectedSet)
         /\ ProtectedSet \subseteq KeptBlindly(Found)
         /\ ~(ProtectedSet \subseteq KeptBlindly(Found - 1))

(* A protected bundle is lost to overflow or because it died in the gap    *)
(* before the contact; and once one dies in the gap no trial is safe, so   *)
(* that the answer is the whole backlog, for either admission              *)
(* (buffer_sizing.py:123-136).                                             *)
LossesExplained ==
  /\ pc = "done" =>
       \A b \in ProtectedSet :
         \/ state[b] \in {"delivered", "queue_overflow"}
         \/ state[b] = "ttl_expired" /\ Expiration(b) <= gap
  /\ Over /\ ~AllLive => Found = TotalBytes
=============================================================================
