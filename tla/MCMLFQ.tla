------------------------------- MODULE MCMLFQ --------------------------------
(***************************************************************************)
(* The scheduler on small tables: quanta and the boost period are cut down *)
(* from 15, 10, 1 and 60 so that demotions and boosts happen.              *)
(***************************************************************************)
EXTENDS MLFQ

NoNice == {}
NiceUp == {15}
=============================================================================
