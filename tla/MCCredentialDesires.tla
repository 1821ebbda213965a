---- MODULE MCCredentialDesires ----
EXTENDS CredentialDesires
====
