----------------------------- MODULE MCInstall -----------------------------
(* A small instance of the model installation for TLC: two processes, an
   archive of two files, one TTS file. *)
EXTENDS ModelInstall, TLC

CONSTANTS i1, i2

TwoInstallers == {i1, i2}
InstallerSymmetry == Permutations(TwoInstallers)
=============================================================================
