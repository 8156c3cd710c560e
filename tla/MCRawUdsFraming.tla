-------------------------- MODULE MCRawUdsFraming --------------------------
(* RawUdsFraming on small instances. *)
EXTENDS RawUdsFraming

\* Payloads from none to one byte too many, and frames that are refused.
SmallShapes == [type : {"valid"}, length : {0, 2}] \cup
               {[type |-> "unknown", length |-> 1], [type |-> "invalid", length |-> 1],
                [type |-> "valid", length |-> 3]}
=============================================================================
