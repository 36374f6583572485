---- MODULE MCSystemWork ----
EXTENDS SystemWork
====
