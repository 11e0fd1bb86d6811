-------------------------------- MODULE MCAuth --------------------------------
(* Settings that turn the admin account and the OIDC provider on, off and to      *)
(* other Secrets.                                                                  *)
EXTENDS Auth

Setting(token, admin, client, issuer) ==
  [auth |-> TRUE, token |-> token, admin |-> admin, client |-> client, issuer |-> issuer]
Before   == {Setting("token", "admin", "client", "i1")}
Settings == Before \cup {Setting("token2", None, "client", "i2")}
===============================================================================
