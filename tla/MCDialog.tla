------------------------------ MODULE MCDialog ------------------------------
(* A small list of files for TLC. *)
EXTENDS Dialog, TLC

CONSTANTS f1, f2, r1, r2, r3, w1, w2

(* The first file is registered under two names. *)
NameOf == (r1 :> f1) @@ (r2 :> f1) @@ (r3 :> f2)

(* One word finds both of them, the other one of them and the other file. *)
Found == (w1 :> {r1, r2}) @@ (w2 :> {r2, r3})
=============================================================================
