--------------------------- MODULE MCSessionSetup ---------------------------
(* SessionSetup with two sessions, two frames at a time and three users.   *)
EXTENDS SessionSetup, TLC

CONSTANTS alice, root

\* root's account has uid 0.
MCUidOf == alice :> 1 @@ root :> 0 @@ Guest :> 2

Modern == [dialects |-> {"2.1", "3.0", "3.1.1"}, sha512 |-> TRUE,
           ciphers |-> {"AES256GCM", "AES128GCM"}, capEncryption |-> TRUE,
           signing |-> {"CMAC", "GMAC"}]

\* In turn: no cipher in common and the signing default; AES-128-CCM by
\* capability; no encryption; and what Select refuses.
MCOffers ==
    {Modern,
     [Modern EXCEPT !.ciphers = {}, !.signing = {}],
     [Modern EXCEPT !.dialects = {"2.1", "3.0.2"}],
     [Modern EXCEPT !.dialects = {"2.1"}],
     [Modern EXCEPT !.sha512 = FALSE]}

MCSymmetry == Permutations(Workers)
=============================================================================
