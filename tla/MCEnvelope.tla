----------------------------- MODULE MCEnvelope -----------------------------
(* The sender, an integrator with an address in each of two formats, and     *)
(* somebody else; one text that is no address.                               *)
EXTENDS Envelope

CONSTANTS home, integrator, other

MCAddress == {"home", "integrator", "integrator, other format", "other", "?"}
MCOwner == [a \in MCAddress \ {"?"} |->
              IF a = "home" THEN home ELSE IF a = "other" THEN other ELSE integrator]
MCAddressOf == [p \in {home, integrator, other} |->
                  IF p = home THEN "home" ELSE IF p = other THEN "other" ELSE "integrator"]
=============================================================================
