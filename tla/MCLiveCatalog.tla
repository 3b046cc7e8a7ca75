----------------------------- MODULE MCLiveCatalog -----------------------------
(* Small instances of the live gateway: two upstreams, two tools. *)
EXTENDS LiveCatalog, TLC

CONSTANTS s1, s2, x, y, t1, t2

TwoSpecs == <<s1, s2>>
OneSpec == <<s1>>
================================================================================
