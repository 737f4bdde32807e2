----------------------------- MODULE MCRunStore -----------------------------
(* Small runs: two ticks after genesis, with and without model calls.        *)
EXTENDS RunStore
NoneOrFirst == {{}, {1}}
=============================================================================
