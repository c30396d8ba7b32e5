---------------------------- MODULE MCDownloader ----------------------------
(* Small downloads for TLC. *)
EXTENDS Downloader, TLC

CONSTANTS p1, p2

(* Two providers of the same kind are interchangeable. *)
Symmetry == Permutations(Provider)
=============================================================================
