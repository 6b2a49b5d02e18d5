-------------------------- MODULE MCStorageWorker --------------------------
(***************************************************************************)
(* One single append and one batch of two; a sweep inspects two records,   *)
(* so the third one is reached by a second sweep only.                     *)
(***************************************************************************)
EXTENDS StorageWorker

CONSTANTS u1, u2, u3

MCBatches == {<<u1>>, <<u2, u3>>}
SmallBatches == {<<u1>>, <<u2>>}
=============================================================================
