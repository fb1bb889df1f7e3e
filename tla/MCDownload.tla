----------------------------- MODULE MCDownload -----------------------------
(* Download of four files: one longer than a window of three blocks (the   *)
(* end of a file counts as a block), one shorter, one that the server may  *)
(* refuse and the client cannot create, and another long one.              *)
EXTENDS Download

CONSTANTS fileA, fileB, fileC, fileD
MCFiles == {fileA, fileB, fileC, fileD}
MCWanted == <<fileA, fileB, fileC, fileD>>
MCBlocks == [f \in MCFiles |->
               CASE f = fileA -> 3 [] f = fileB -> 1 [] f \in {fileC, fileD} -> 4]
=============================================================================
