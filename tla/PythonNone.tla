----------------------------- MODULE PythonNone -----------------------------
(* Python's None, which no value that the models compute is equal to.      *)
CONSTANT None
=============================================================================
