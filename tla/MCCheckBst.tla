----------------------------- MODULE MCCheckBst -----------------------------
(* Model-checking instance of CheckBst.                                    *)
EXTENDS CheckBst

MCMaxSize == 2
\* Values strictly inside (-sys.maxsize-1, sys.maxsize).
MCInnerValues == -MCMaxSize..(MCMaxSize - 1)
\* Values reaching sys.maxsize, which a Python int can hold.
MCBoundaryValues == (-MCMaxSize - 1)..MCMaxSize
MCMaxNodes == 4
MCInitSizes == {1, 3}
=============================================================================
