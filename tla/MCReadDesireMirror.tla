---- MODULE MCReadDesireMirror ----
EXTENDS ReadDesireMirror
====
