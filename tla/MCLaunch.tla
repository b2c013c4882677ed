------------------------------- MODULE MCLaunch -------------------------------
(* A word that safePath has as a link first, a script or a binary, a linked cwd. *)
EXTENDS Launch, TLC

CONSTANTS l, e, p, c, d, f1, f2, d1, d2, bin, scr, bad

MCShebang == (bin :> "none") @@ (scr :> p) @@ (bad :> "invalid")
MCSafePath == <<l, e>>
MCStart == (l :> e) @@ (e :> f1) @@ (p :> f2) @@ (c :> d) @@ (d :> d1)
MCStartContent == (f1 :> {bin, scr}) @@ (f2 :> {bin})
===============================================================================
