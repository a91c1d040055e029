------------------------------ MODULE MCGateway ------------------------------
(* Small instances of GatewayWorker: scaled sizes, lifetimes and contacts. *)
EXTENDS GatewayProperties

MCLifetime == [emergency |-> 1, telemetry |-> 2, sci_bulk |-> 3, media |-> 2]
MCWeight == [telemetry |-> 2, sci_bulk |-> 1, media |-> 1]
MCContacts == {[from |-> 1, to |-> 2], [from |-> 3, to |-> 5]}
Offer(c, n) == [cls |-> c, n |-> n]

(* With capacity 2: an arrival that needs two evictions, one that evicts   *)
(* and still does not fit, and one that evicts its way in.                 *)
MixedOffers == {Offer("emergency", 1), Offer("telemetry", 2), Offer("media", 1)}
(* With credits of 2 and 1: a bundle larger than its credit, and one that  *)
(* is not.                                                                 *)
DrrOffers == {Offer("emergency", 1), Offer("telemetry", 3), Offer("media", 1)}
=============================================================================
