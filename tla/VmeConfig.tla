------------------------------- MODULE VmeConfig ------------------------------
(* The sizes vme_config.h gives the Virtual Memory Engine.                    *)
EXTENDS Integers, Sequences, Functions

CONSTANTS
    COLD_PAGES,  \* pages of the untrusted pool; pages are 0 .. COLD_PAGES - 1
    WARM_PAGES   \* frames of the enclave pool (q->numberOfFrames)

Pages == 0 .. COLD_PAGES - 1

================================================================================
