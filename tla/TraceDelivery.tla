--------------------------- MODULE TraceDelivery ---------------------------
(***************************************************************************)
(* What trace recording promises, without network, retries or reloads: the *)
(* browser writes events down one number after the other, and what the     *)
(* server holds is always the beginning of what was written, whole and in  *)
(* order.  Once the session is closed the server takes nothing more, and   *)
(* what is still written down stays in the browser.                        *)
(***************************************************************************)
EXTENDS Naturals, FiniteSets

CONSTANT Events           (* records with a number, n                      *)

VARIABLES written,        (* the events written down in the browser        *)
          delivered,      (* those of them the server holds                *)
          closed

vars == <<written, delivered, closed>>

Init == /\ written = {}
        /\ delivered = {}
        /\ closed = FALSE

BeginningOf(D, W) ==
    /\ D \subseteq W
    /\ \A d \in D, e \in W : e.n <= d.n => e \in D

Write == \E e \in Events :
    /\ ~ closed => e.n = Cardinality(written) + 1
    /\ written' = written \union {e}
    /\ UNCHANGED <<delivered, closed>>

Deliver ==
    /\ ~ closed
    /\ delivered' \in SUBSET written
    /\ delivered \subseteq delivered'
    /\ BeginningOf(delivered', written)
    /\ UNCHANGED <<written, closed>>

Close == /\ closed' = TRUE
         /\ UNCHANGED <<written, delivered>>

Next == Write \/ Deliver \/ Close

Spec == Init /\ [][Next]_vars
=============================================================================
