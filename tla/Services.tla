------------------------------ MODULE Services ------------------------------
(***************************************************************************)
(* Two parts that share no state: the charger on the OCPP server, and the  *)
(* configuration with the modules built from it.  What holds of each alone *)
(* holds of their product, so the systems looked at move one of the two.   *)
(***************************************************************************)
EXTENDS OcppStation, Reconfigure

VARIABLE part  \* the one that moves

servicesVars == <<vars, configVars, part>>

ServicesInit == part \in {"station", "configuration"} /\ Init /\ ReconfigureInit

ServicesNext ==
    \/ part = "station" /\ Next /\ UNCHANGED <<configVars, part>>
    \/ part = "configuration" /\ ReconfigureNext /\ UNCHANGED <<vars, part>>

ServicesSpec == ServicesInit /\ [][ServicesNext]_servicesVars
=============================================================================
