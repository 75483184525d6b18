------------------------- MODULE MCSoftExpiryRecovery -------------------------
(* SoftExpiryRecovery on a small instance: one account, no proxy flows. *)
EXTENDS SoftExpiryRecovery
===============================================================================
