----------------------------- MODULE MCVmImage -----------------------------
\* A VM of two disks.
EXTENDS VmImage

TwoDisks == <<"a", "b">>
=============================================================================
