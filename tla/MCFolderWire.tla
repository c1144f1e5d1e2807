----------------------------- MODULE MCFolderWire -----------------------------
(* A small instance of FolderWire: the processes "p" and "q" of one machine.   *)
EXTENDS FolderWire
=============================================================================
