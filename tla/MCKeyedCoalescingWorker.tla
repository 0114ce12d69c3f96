---------------------- MODULE MCKeyedCoalescingWorker ----------------------
(* Two keys, three updates of the first (one queued, one merged while the    *)
(* key is active, one after a failure) and one of the second.                *)
EXTENDS KeyedCoalescingWorker

CONSTANTS k1, k2, u1, u2, u3, u4, d1, d2

MCKeyOf == [u \in Update |-> IF u = u4 THEN k2 ELSE k1]
MCDrainKey == [d \in Drainer |-> IF d = d1 THEN k1 ELSE k2]
=============================================================================
