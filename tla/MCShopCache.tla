---------------------------- MODULE MCShopCache ----------------------------
(* Model values for TLC. *)
EXTENDS ShopCacheProperties, TLC

AllStrategies == Logical \cup {Mutex, PassThrough}
LiveStrategy == {ServiceLogical}
MutexStrategy == {Mutex}
=============================================================================
