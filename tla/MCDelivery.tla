----------------------------- MODULE MCDelivery -----------------------------
(* Every kind of mail, and every configuration: what the sink cannot do    *)
(* (verify a file) is left out by ConfigType.                              *)
EXTENDS Delivery

AllConfigs == ConfigType
AllMails == MailType
=============================================================================
