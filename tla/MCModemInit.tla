---- MODULE MCModemInit ----
EXTENDS ModemInit
====
