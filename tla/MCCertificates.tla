--------------------------- MODULE MCCertificates ---------------------------
(* The instance of Certificates that TLC checks. *)
EXTENDS Certificates

\* No certificate, two .pfx files, or a .pfx and a .pem file.
MCMatchings == {{}, {"a.pfx", "b.pfx"}, {"a.pfx", "c.pem"}}

\* The target accepts nobody, one certificate, any certificate, or anybody.
MCPolicies == {{}, {"a.pfx"}, Pfx, Credentials}

MCSpec == Spec /\ Fairness
=============================================================================
